---- MODULE Spec2Model ----
(***************************************************************************)
(* Model of the linuiz kernel memory subsystem.                            *)
(*                                                                         *)
(* Part 1: the block heap allocator (kernel/src/slob.rs).  The tracking    *)
(* table is a slice of 64-bit BlockPage words, one per virtual page.  A    *)
(* word is modelled as the set of its set bit positions (a subset of       *)
(* 0..63), so that the shift / wrapping-subtract arithmetic of the source  *)
(* is carried out bit for bit at the width of u64.                         *)
(*                                                                         *)
(* The Mapper (libkernel::memory::global_pmgr()) is not part of the        *)
(* sources at hand; its three operations used by the heap are modelled     *)
(* from the design document (section 4.2).                                 *)
(*                                                                         *)
(* Part 2: the length of the tracking table at machine width (GrowthSpec): *)
(* the arithmetic of SLOB::grow on 64-bit words, with the table's entries  *)
(* left out.                                                               *)
(*                                                                         *)
(* Part 3: the physical memory manager (kernel/src/mem/alloc/pmm.rs): the  *)
(* frame ledger with its calls made one after the other (PmmSpec) and      *)
(* step by step on two cores under the ledger's lock (CoresSpec).          *)
(*                                                                         *)
(* Each specification follows one part; the variables of the other parts   *)
(* keep a fixed value in it.                                               *)
(***************************************************************************)
EXTENDS Integers, Sequences, FiniteSets, TLC

(***************************************************************************)
(* Bounds of the model.                                                    *)
(***************************************************************************)
\* Number of client operations (alloc / dealloc calls) in one run.
MaxOps == 2
\* Largest tracking-table length (in entries) a run may grow to.
MaxTableLen == 1024
\* Number of physical memory manager calls in one run, made one after the other.
MaxPmmOps == 3
\* Number of physical memory manager calls in one run of two cores.
MaxCoreCalls == 2

(***************************************************************************)
(* Program constants.                                                      *)
(***************************************************************************)
\* size_of::<u64>() * 8
BLOCKS_PER == 64
\* 0x1000
PAGE_SIZE == 4096
\* 0x1000 / BlockPage::BLOCKS_PER
BLOCK_SIZE == PAGE_SIZE \div BLOCKS_PER
\* size_of::<BlockPage>()
BLOCK_PAGE_BYTES == 8
\* 0x1000 / size_of::<BlockPage>() : table entries held by one page
ENTRIES_PER_PAGE == PAGE_SIZE \div BLOCK_PAGE_BYTES
\* Page::from_index(1) in new()
INITIAL_TABLE_PAGE == 1
\* 0x746A52880000 / 0x1000 = 0x746A52880, written as hi * 65536 + lo so
\* that every intermediate value fits in 32 bits.
CEILING_PAGES_HI == 476837
CEILING_PAGES_LO == 10368

(***************************************************************************)
(* u64 words as sets of bit positions.                                     *)
(***************************************************************************)
Bits == 0 .. (BLOCKS_PER - 1)
U64_MIN == {}
U64_MAX == Bits

MinBit(w) == CHOOSE b \in w : \A c \in w : b <= c

\* w << n for n < 64 (bits shifted past bit 63 are lost)
Shl(w, n) == { b + n : b \in { c \in w : c + n < BLOCKS_PER } }
\* w.wrapping_sub(1)
WrappingSub1(w) ==
    IF w = {} THEN U64_MAX
    ELSE LET low == MinBit(w) IN (w \ {low}) \cup (0 .. (low - 1))
\* a | b, a & b, a ^ b
BitOr(a, b) == a \cup b
BitAnd(a, b) == a \cap b
BitXor(a, b) == (a \ b) \cup (b \ a)

\* BlockPage::is_empty / is_full
is_empty(bp) == bp = U64_MIN
is_full(bp) == bp = U64_MAX

\* x & y on small non-negative integers (bit_shift & align_mask)
RECURSIVE IntAnd(_, _)
IntAnd(x, y) ==
    IF x = 0 \/ y = 0 THEN 0
    ELSE (x % 2) * (y % 2) + 2 * IntAnd(x \div 2, y \div 2)

\* libkernel::align_up_div(value, alignment)
align_up_div(value, alignment) == (value + alignment - 1) \div alignment
\* libkernel::align_up(value, alignment)
align_up(value, alignment) == align_up_div(value, alignment) * alignment

\* usize::next_power_of_two
RECURSIVE NextPow2From(_, _)
NextPow2From(p, n) == IF p >= n THEN p ELSE NextPow2From(2 * p, n)
next_power_of_two(n) == NextPow2From(1, n)

Max(a, b) == IF a >= b THEN a ELSE b
Min(a, b) == IF a <= b THEN a ELSE b

(***************************************************************************)
(* SLOB::calculate_bit_fields.  `checks` is the build's overflow-checks    *)
(* setting: with it, `1 << 64` panics; without it the shift amount wraps   *)
(* to 64 % 64 = 0.                                                         *)
(***************************************************************************)
calculate_bit_fields(map_index, cur_block_index, end_block_index, checks) ==
    LET floor_blocks_index == map_index * BLOCKS_PER
        ceil_blocks_index == floor_blocks_index + BLOCKS_PER
        mask_bit_offset == cur_block_index - floor_blocks_index
        mask_bit_count == Min(ceil_blocks_index, end_block_index) - cur_block_index
    IN  [ count |-> mask_bit_count,
          panic |-> checks /\ mask_bit_count >= BLOCKS_PER,
          mask  |-> Shl(WrappingSub1(Shl({0}, mask_bit_count % BLOCKS_PER)),
                        mask_bit_offset) ]

(***************************************************************************)
(* The scan of SLOB::alloc (the `for` loops inside 'outer).  The scan      *)
(* state is the pair of loop variables (current_run, block_index) plus     *)
(* the effect of `break 'outer` (found, end_table_index).                  *)
(***************************************************************************)
ScanStart == [ run |-> 0, block |-> 0, found |-> FALSE, endTable |-> 0 ]

\* One iteration of `for bit_shift in 0..BLOCKS_PER`.
ScanBit(st, bp, table_index, bit_shift, align_mask, size_in_blocks) ==
    IF bit_shift \in bp
    THEN [st EXCEPT !.run = 0, !.block = @ + 1]
    ELSE IF st.run > 0 \/ IntAnd(bit_shift, align_mask) = 0
         THEN IF st.run + 1 = size_in_blocks
              THEN [st EXCEPT !.run = @ + 1, !.found = TRUE,
                              !.endTable = table_index + 1]
              ELSE [st EXCEPT !.run = @ + 1, !.block = @ + 1]
         ELSE [st EXCEPT !.block = @ + 1]

RECURSIVE ScanBits(_, _, _, _, _, _)
ScanBits(st, bp, table_index, bit_shift, align_mask, size_in_blocks) ==
    IF st.found \/ bit_shift = BLOCKS_PER THEN st
    ELSE ScanBits(ScanBit(st, bp, table_index, bit_shift, align_mask, size_in_blocks),
                  bp, table_index, bit_shift + 1, align_mask, size_in_blocks)

\* The 64 iterations of the bit loop over a word with no bit set: every
\* iteration takes the `current_run += 1` branch (bit 0 passes the alignment
\* test, later bits have current_run > 0), so the run is found at bit
\* size_in_blocks - current_run - 1 when that is one of 0..63, and otherwise
\* both loop variables advance by 64.
ScanEmptyPage(st, table_index, size_in_blocks) ==
    IF size_in_blocks - st.run >= 1 /\ size_in_blocks - st.run <= BLOCKS_PER
    THEN [run |-> size_in_blocks, block |-> st.block + (size_in_blocks - st.run - 1),
          found |-> TRUE, endTable |-> table_index + 1]
    ELSE [st EXCEPT !.run = @ + BLOCKS_PER, !.block = @ + BLOCKS_PER]

\* One iteration of `for (table_index, block_page) in table_write.iter()`.
ScanPage(st, t, table_index, align_mask, size_in_blocks) ==
    IF is_full(t[table_index])
    THEN [st EXCEPT !.run = 0, !.block = @ + BLOCKS_PER]
    ELSE IF is_empty(t[table_index])
    THEN ScanEmptyPage(st, table_index, size_in_blocks)
    ELSE ScanBits(st, t[table_index], table_index, 0, align_mask, size_in_blocks)

\* The iterations lo..hi of the outer `for`, in order (split in halves only
\* to keep the evaluation shallow).
RECURSIVE ScanPages(_, _, _, _, _, _)
ScanPages(st, t, lo, hi, align_mask, size_in_blocks) ==
    IF st.found \/ lo > hi THEN st
    ELSE IF lo = hi THEN ScanPage(st, t, lo, align_mask, size_in_blocks)
    ELSE LET mid == (lo + hi) \div 2
         IN  ScanPages(ScanPages(st, t, lo, mid, align_mask, size_in_blocks),
                       t, mid + 1, hi, align_mask, size_in_blocks)

TableLen(t) == Cardinality(DOMAIN t)

Scan(t, align_mask, size_in_blocks) ==
    ScanPages(ScanStart, t, 0, TableLen(t) - 1, align_mask, size_in_blocks)

(***************************************************************************)
(* The Mapper, as far as the heap uses it (design document, 4.2).  The     *)
(* page table is a function from the mapped pages to a frame.  Frames are  *)
(* named by what they hold: the frame behind table page offset j of the    *)
(* tracking table, or a private data frame fresh from the PMM.             *)
(***************************************************************************)
DataFrame == [kind |-> "data", off |-> 0]
TableFrame(j) == [kind |-> "table", off |-> j]

IsMapped(p, page) == page \in DOMAIN p

\* auto_map(page, attributes): take a frame from the PMM and map it.
auto_map(p, page, frame) ==
    [q \in (DOMAIN p) \cup {page} |-> IF q = page THEN frame ELSE p[q]]

\* copy_by_map(src_page, dst_page, attributes): point dst at src's frame.
copy_by_map(p, src_page, dst_page) ==
    [q \in (DOMAIN p) \cup {dst_page} |-> IF q = dst_page THEN p[src_page] ELSE p[q]]

\* unmap(page, free_backing): clear the leaf entry.
unmap(p, page) == [q \in (DOMAIN p) \ {page} |-> p[q]]

(***************************************************************************)
(* SLOB::grow.                                                             *)
(***************************************************************************)
\* (req_table_len * 0x1000) < 0x746A52880000
BelowCeiling(req_table_len) ==
    \/ req_table_len \div 65536 < CEILING_PAGES_HI
    \/ /\ req_table_len \div 65536 = CEILING_PAGES_HI
       /\ req_table_len % 65536 < CEILING_PAGES_LO

\* The search for a run of empty entries: loop variables (current_run) and
\* the OnceCell start_index.
RunStart == [run |-> 0, found |-> FALSE, start |-> 0]

\* RunStep, had an entry counted for the run unless it is full.
RunStep_not_full(st, t, index, req_table_page_count) ==
    IF ~is_full(t[index])
    THEN IF st.run + 1 = req_table_page_count
         THEN [run |-> st.run + 1, found |-> TRUE, start |-> index - st.run]
         ELSE [st EXCEPT !.run = @ + 1]
    ELSE [st EXCEPT !.run = 0]

RunStep(st, t, index, req_table_page_count) ==
    IF is_empty(t[index])
    THEN IF st.run + 1 = req_table_page_count
         THEN [run |-> st.run + 1, found |-> TRUE, start |-> index - st.run]
         ELSE [st EXCEPT !.run = @ + 1]
    ELSE [st EXCEPT !.run = 0]

RECURSIVE RunSearch(_, _, _, _, _)
RunSearch(st, t, lo, hi, req_table_page_count) ==
    IF st.found \/ lo > hi THEN st
    ELSE IF lo = hi THEN RunStep(st, t, lo, req_table_page_count)
    ELSE LET mid == (lo + hi) \div 2
         IN  RunSearch(RunSearch(st, t, lo, mid, req_table_page_count),
                       t, mid + 1, hi, req_table_page_count)

\* The page-table effect of the two mapping loops of grow.
GrowMap(p, cur_base, new_base, cur_table_page_count, req_table_page_count) ==
    [q \in (DOMAIN p) \cup (new_base .. (new_base + req_table_page_count - 1)) |->
        IF q >= new_base /\ q < new_base + cur_table_page_count
        THEN copy_by_map(p, cur_base + (q - new_base), q)[q]
        ELSE IF q >= new_base /\ q < new_base + req_table_page_count
             THEN auto_map(p, q, TableFrame(q - new_base))[q]
             ELSE p[q]]

\* The slice seen through the new mapping: the old table's pages keep their
\* frames (and so their contents), the added pages are cleared.
Relocated(t, cur_table_len, new_table_len) ==
    [i \in 0 .. (new_table_len - 1) |-> IF i < cur_table_len THEN t[i] ELSE U64_MIN]

\* iter_mut().skip(from).take(count).for_each(set)
SetRange(t, from, count, word) ==
    [i \in DOMAIN t |-> IF i >= from /\ i < from + count THEN word ELSE t[i]]

\* MarkTablePages, had only the first page of the new table been marked.
MarkTablePages_first_only(t, new_base, req_table_page_count) ==
    SetRange(t, new_base, 1, U64_MAX)

\* skip(new_table_base_page.index()).take(req_table_page_count).set_full()
MarkTablePages(t, new_base, req_table_page_count) ==
    SetRange(t, new_base, req_table_page_count, U64_MAX)

\* ClearOldTablePages, had it cleared one entry too many.
ClearOldTablePages_one_more(t, base, cur_table_page_count) ==
    SetRange(t, base, cur_table_page_count + 1, U64_MIN)

\* skip(cur_table_base_page.index()).take(cur_table_page_count).set_empty()
ClearOldTablePages(t, base, cur_table_page_count) ==
    SetRange(t, base, cur_table_page_count, U64_MIN)

grow(t, base, p, required_blocks) ==
    IF ~(required_blocks > 0)
    THEN [halt |-> "calls to grow must be nonzero", table |-> t, base |-> base, pt |-> p]
    ELSE
    LET cur_table_len == TableLen(t)
        req_table_len ==
            next_power_of_two(cur_table_len + align_up_div(required_blocks, BLOCKS_PER))
        cur_table_page_count == align_up_div(cur_table_len * BLOCK_PAGE_BYTES, PAGE_SIZE)
        req_table_page_count == align_up_div(req_table_len * BLOCK_PAGE_BYTES, PAGE_SIZE)
    IN  IF ~BelowCeiling(req_table_len)
        THEN [halt |-> "Out of memory!", table |-> t, base |-> base, pt |-> p]
        ELSE
        LET search == RunSearch(RunStart, t, 0, cur_table_len - 1, req_table_page_count)
            new_base == IF search.found THEN search.start ELSE cur_table_len
            new_len == align_up(req_table_len, ENTRIES_PER_PAGE)
            t1 == Relocated(t, cur_table_len, new_len)
            t2 == [t1 EXCEPT ![0] = U64_MAX]
            t3 == MarkTablePages(t2, new_base, req_table_page_count)
            t4 == ClearOldTablePages(t3, base, cur_table_page_count)
        IN  [ halt |-> "no", table |-> t4, base |-> new_base,
              pt |-> GrowMap(p, base, new_base, cur_table_page_count,
                             req_table_page_count) ]

(***************************************************************************)
(* SLOB::alloc.                                                            *)
(***************************************************************************)
\* 'outer: scan; when no run is found, grow and scan again.  `snaps` keeps
\* the table before and after each grow.  The loop is cut off when the table
\* would pass MaxTableLen (the result is then marked capped).
RECURSIVE AllocLoop(_, _, _, _, _, _)
AllocLoop(t, base, p, align_mask, size_in_blocks, snaps) ==
    LET scan == Scan(t, align_mask, size_in_blocks)
    IN  IF scan.found
        THEN [halt |-> "no", capped |-> FALSE, table |-> t, base |-> base, pt |-> p,
              scan |-> scan, snaps |-> snaps]
        ELSE LET g == grow(t, base, p, size_in_blocks)
             IN  IF g.halt # "no"
                 THEN [halt |-> g.halt, capped |-> FALSE, table |-> t, base |-> base,
                       pt |-> p, scan |-> scan, snaps |-> snaps]
                 ELSE IF TableLen(g.table) > MaxTableLen
                 THEN [halt |-> "no", capped |-> TRUE, table |-> t, base |-> base,
                       pt |-> p, scan |-> scan, snaps |-> snaps]
                 ELSE AllocLoop(g.table, g.base, g.pt, align_mask, size_in_blocks,
                                Append(snaps, [pre |-> t, preBase |-> base,
                                               post |-> g.table, postBase |-> g.base,
                                               prePt |-> p, postPt |-> g.pt]))

\* (1 as u64).checked_shl(remaining).unwrap_or(u64::MAX).wrapping_sub(1)
ClaimMaskBits(remaining_blocks_in_slice) ==
    WrappingSub1(IF remaining_blocks_in_slice < BLOCKS_PER
                 THEN Shl({0}, remaining_blocks_in_slice)
                 ELSE U64_MAX)

\* block_index at the top of iteration table_index of the claim loop: each
\* earlier iteration advanced it to the ceiling of its page.
LoopBlockIndex(table_index, start_block_index) ==
    IF table_index = start_block_index \div BLOCKS_PER
    THEN start_block_index
    ELSE table_index * BLOCKS_PER

\* The word written to table[table_index] by the claim loop.
ClaimWord(t, table_index, start_block_index, end_block_index) ==
    LET block_index == LoopBlockIndex(table_index, start_block_index)
        block_index_floor == table_index * BLOCKS_PER
        low_offset == block_index - block_index_floor
        remaining_blocks_in_slice ==
            Min(end_block_index - block_index,
                (block_index_floor + BLOCKS_PER) - block_index)
    IN  BitOr(t[table_index], Shl(ClaimMaskBits(remaining_blocks_in_slice), low_offset))

alloc(t, base, p, size, align) ==
    LET align_mask == Max(align \div BLOCK_SIZE, 1) - 1
        size_in_blocks == align_up_div(size, BLOCK_SIZE)
        loop == AllocLoop(t, base, p, align_mask, size_in_blocks, << >>)
    IN  IF loop.halt # "no" \/ loop.capped
        THEN [halt |-> loop.halt, capped |-> loop.capped, table |-> loop.table,
              base |-> loop.base, pt |-> loop.pt, ptr |-> 0, snaps |-> loop.snaps,
              automaps |-> {}]
        ELSE
        LET end_block_index == loop.scan.block + 1
            start_block_index == loop.scan.block - (loop.scan.run - 1)
            start_table_index == start_block_index \div BLOCKS_PER
            end_table_index == loop.scan.endTable
            touched == start_table_index .. (end_table_index - 1)
            was_empty == { i \in touched : is_empty(loop.table[i]) }
        IN  [ halt |-> "no", capped |-> FALSE,
              table |-> [i \in DOMAIN loop.table |->
                            IF i \in touched
                            THEN ClaimWord(loop.table, i, start_block_index, end_block_index)
                            ELSE loop.table[i]],
              base |-> loop.base,
              pt |-> [q \in (DOMAIN loop.pt) \cup was_empty |->
                         IF q \in was_empty THEN auto_map(loop.pt, q, DataFrame)[q]
                         ELSE loop.pt[q]],
              ptr |-> start_block_index * BLOCK_SIZE,
              snaps |-> loop.snaps,
              automaps |-> { [page |-> q, present |-> IsMapped(loop.pt, q)] : q \in was_empty } ]

(***************************************************************************)
(* SLOB::dealloc.  `checks` is the build's overflow-checks setting.        *)
(***************************************************************************)
\* ShouldUnmap, had the page been released whenever it had a used block.
ShouldUnmap_had_bits_only(had_bits, has_bits) == had_bits

\* if had_bits && !has_bits { page_manager.unmap(page, true) }
ShouldUnmap(had_bits, has_bits) == had_bits /\ ~has_bits

\* The unmap calls of iterations lo .. hi of the loop, in the order made:
\* `before` and `after` are the entries as the iterations found and left them.
RECURSIVE UnmapCalls(_, _, _, _)
UnmapCalls(before, after, lo, hi) ==
    IF lo > hi THEN << >>
    ELSE IF lo = hi
    THEN IF ShouldUnmap(~is_empty(before[lo]), ~is_empty(after[lo]))
         THEN << lo >> ELSE << >>
    ELSE LET mid == (lo + hi) \div 2
         IN  UnmapCalls(before, after, lo, mid) \o UnmapCalls(before, after, mid + 1, hi)

dealloc(t, p, ptr, size, checks) ==
    LET start_block_index == ptr \div BLOCK_SIZE
        end_block_index == start_block_index + align_up_div(size, BLOCK_SIZE)
        start_table_index == start_block_index \div BLOCKS_PER
        end_table_index == align_up_div(end_block_index, BLOCKS_PER)
        visited == start_table_index .. (end_table_index - 1)
        fields(i) == calculate_bit_fields(i, LoopBlockIndex(i, start_block_index),
                                          end_block_index, checks)
        \* why iteration i stops the call, "no" when it completes
        stop(i) == IF i >= TableLen(t) THEN "index out of bounds"
                   ELSE IF fields(i).panic THEN "attempt to shift left with overflow"
                   ELSE IF BitAnd(t[i], fields(i).mask) # fields(i).mask
                   THEN "attempting to deallocate blocks that are already deallocated"
                   ELSE "no"
        stopping == { i \in visited : stop(i) # "no" }
        first_stop == CHOOSE i \in stopping : \A j \in stopping : i <= j
        done == IF stopping = {} THEN visited ELSE { i \in visited : i < first_stop }
        word(i) == BitXor(t[i], fields(i).mask)
        after == [i \in done |-> word(i)]
        calls == IF done = {} THEN << >>
                 ELSE UnmapCalls(t, after, start_table_index,
                                 start_table_index + Cardinality(done) - 1)
        unmapped == { calls[k] : k \in DOMAIN calls }
    IN  [ halt |-> IF stopping = {} THEN "no" ELSE stop(first_stop),
          table |-> [i \in DOMAIN t |-> IF i \in done THEN after[i] ELSE t[i]],
          \* unmap(page, true) for every page of `calls`
          pt |-> [q \in (DOMAIN p) \ unmapped |-> p[q]],
          unmaps |-> calls ]

(***************************************************************************)
(* State.                                                                  *)
(***************************************************************************)
VARIABLES
    table,      \* the slice behind SLOB::table: entry index -> BlockPage word
    tableBase,  \* page index of the slice's first page (table_write.as_ptr() / 0x1000)
    pt,         \* the Mapper's page table for the heap range: page -> frame
    live,       \* allocations handed to clients and not yet freed
    halted,     \* "no", or the message of the panic that stopped the kernel
    checks,     \* whether the build panics on arithmetic overflow
    ops,        \* number of client calls made
    last,       \* the latest client call and what it did
    prev        \* the call before it

\* The table's length at machine width (GrowthSpec).
VARIABLES
    gLen,       \* table_write.len() as a 64-bit word
    gBlocks,    \* size_in_blocks of the alloc call in progress, as a 64-bit word
    gPhase      \* "idle", or "scan" while an alloc call is in its loop

\* The physical memory manager (pmm.rs).
VARIABLES
    memoryMap,  \* the boot memory map: a sequence of [start, end, ty]
    ledger,     \* FrameAllocator::table: the set of frame indices whose bit is set
    pcalls,     \* the PMM calls that returned, in order
    lock,       \* the RwLock around the ledger: [writer, readers]
    pc          \* per core: the call it is in and its position in it

\* The locks of the heap and of the ledger on cores that take interrupts
\* (LocksSpec).
VARIABLES
    tableLock,  \* the RwLock of SLOB::table: [writer, readers]
    ledgerLock, \* the RwLock of FrameAllocator::table: [writer, readers]
    cpu,        \* per core: the call it is in, its interrupt flag, its handler
    migration,  \* the step grow() has reached in moving the table, and the core in it
    seen        \* the table accesses made: [core, phase, mover]

\* The Global Allocator Front (malloc.rs, FrontSpec).
VARIABLES
    DEFAULT_MALLOCATOR, \* the cell behind set and get: None, or Some(allocator)
    fcalls              \* the calls made to set and get, in order

\* The bring-up of the cores (init/mod.rs, BootSpec).
VARIABLES
    boot,       \* per core: where it stands in _entry or _smp_entry
    kmapper,    \* the mappings the kernel mapper holds: a subset of {load, hhdm, apic}
    root,       \* per core: the page tables it runs on, bootloader or kernel
    params,     \* the kernel parameters: [smp], parsed by setup_memory
    trace       \* the steps taken, in order: [core, step]

\* A function defined with call_once! (init/mod.rs, OnceSpec).
VARIABLES
    CALLED,     \* the AtomicBool of a call_once! function
    caller,     \* per core: where its call of the function stands
    bodyRuns    \* the runs of the body: per core, the statements of it run so far

\* Hardware random numbers (instructions/mod.rs, RandSpec).
VARIABLES
    rng,        \* the call of rdrand or rdseed: instruction, position, loop counter, result
    hardware,   \* the CPU's feature bits, and whether the build hoisted the asm! block
    executed    \* the executions of the instruction by the call: count, failures, last outcome

\* A SyncOnceCell shared between the cores (cell.rs, CellSpec).
VARIABLES
    inner_cell, \* the OnceCell inside a SyncOnceCell: None, or Some(value)
    setter,     \* per core: where its call of set or get stands, and the value it brought
    ccalls      \* the calls of set and get that have returned, in order

\* Loading the segments of the kernel and of the drivers (init/mod.rs, ElfSpec).
VARIABLES
    image,      \* the ELF being loaded: the kernel or a driver, and its program headers
    mappings    \* the segments mapped so far, in order: the program header, its pages, the permissions it is left with

\* The CR3 register (registers/cr3.rs, Cr3Spec).
VARIABLES
    cr3,        \* the CR3 register: a 64-bit word, as the set of its bits
    crcalls     \* the calls of CR3::write and CR3::read that have returned, in order

heapVars == <<table, tableBase, pt, live, ops, last, prev>>
growthVars == <<gLen, gBlocks, gPhase>>
pmmVars == <<memoryMap, ledger, pcalls, lock, pc>>
lockVars == <<tableLock, ledgerLock, cpu, migration, seen>>
frontVars == <<DEFAULT_MALLOCATOR, fcalls>>
bootVars == <<boot, kmapper, root, params, trace>>
onceVars == <<CALLED, caller, bodyRuns>>
randVars == <<rng, hardware, executed>>
cellVars == <<inner_cell, setter, ccalls>>
elfVars == <<image, mappings>>
cr3Vars == <<cr3, crcalls>>
kernelVars == <<lockVars, frontVars, bootVars, onceVars, randVars, cellVars, elfVars, cr3Vars>>
besideLocks == <<halted, checks, heapVars, growthVars, pmmVars, frontVars, bootVars, onceVars, randVars, cellVars, elfVars, cr3Vars>>
besideFront == <<checks, heapVars, growthVars, pmmVars, lockVars, bootVars, onceVars, randVars, cellVars, elfVars, cr3Vars>>
besideBoot == <<checks, heapVars, growthVars, pmmVars, lockVars, frontVars, onceVars, randVars, cellVars, elfVars, cr3Vars>>
besideOnce == <<checks, heapVars, growthVars, pmmVars, lockVars, frontVars, bootVars, randVars, cellVars, elfVars, cr3Vars>>
besideRand == <<checks, heapVars, growthVars, pmmVars, lockVars, frontVars, bootVars, onceVars, cellVars, elfVars, cr3Vars>>
besideCell == <<checks, heapVars, growthVars, pmmVars, lockVars, frontVars, bootVars, onceVars, randVars, elfVars, cr3Vars>>
besideElf == <<checks, heapVars, growthVars, pmmVars, lockVars, frontVars, bootVars, onceVars, randVars, cellVars, cr3Vars>>
besideCr3 == <<checks, heapVars, growthVars, pmmVars, lockVars, frontVars, bootVars, onceVars, randVars, cellVars, elfVars>>
vars == <<table, tableBase, pt, live, halted, checks, ops, last, prev,
          gLen, gBlocks, gPhase, memoryMap, ledger, pcalls, lock, pc,
          tableLock, ledgerLock, cpu, migration, seen,
          DEFAULT_MALLOCATOR, fcalls,
          boot, kmapper, root, params, trace,
          CALLED, caller, bodyRuns,
          rng, hardware, executed,
          inner_cell, setter, ccalls,
          image, mappings,
          cr3, crcalls>>

\* Requests clients make: Layout { size, align }.
AllocInputs ==
    { [size |-> 0, align |-> 8],
      [size |-> 48, align |-> 16],
      [size |-> 128, align |-> 128],
      [size |-> 4096, align |-> 4096],
      [size |-> 4160, align |-> 64],
      [size |-> 64, align |-> 8192],
      [size |-> 510 * 4096, align |-> 4096],
      [size |-> 511 * 4096, align |-> 64] }

\* Arguments of dealloc calls that match no live allocation.
StrayDeallocInputs ==
    { [ptr |-> 8192, size |-> 48],
      [ptr |-> 8192, size |-> 4096],
      [ptr |-> 8192 + 64, size |-> 4096],
      [ptr |-> 8192 + 64, size |-> 128],
      [ptr |-> 12288, size |-> 4032] }

NoCall == [op |-> "new", size |-> 0, align |-> 1, ptr |-> 0, ok |-> TRUE,
           pre |-> << >>, mid |-> << >>, snaps |-> << >>,
           automaps |-> {}, unmaps |-> << >>]

\* Each specification follows one component; the variables of the others
\* keep these values.
HeapUntracked ==
    /\ table = << >> /\ tableBase = 0 /\ pt = << >> /\ live = {}
    /\ ops = 0 /\ last = NoCall /\ prev = NoCall
GrowthUntracked == gLen = {} /\ gBlocks = {} /\ gPhase = "untracked"
PmmUntracked ==
    /\ memoryMap = << >> /\ ledger = {} /\ pcalls = << >>
    /\ lock = << >> /\ pc = << >>
LocksUntracked ==
    /\ tableLock = << >> /\ ledgerLock = << >> /\ cpu = << >>
    /\ migration = << >> /\ seen = {}
FrontUntracked ==
    DEFAULT_MALLOCATOR = << >> /\ fcalls = << >>
BootUntracked ==
    boot = << >> /\ kmapper = {} /\ root = << >> /\ params = << >> /\ trace = << >>
OnceUntracked ==
    CALLED = << >> /\ caller = << >> /\ bodyRuns = << >>
RandUntracked ==
    rng = << >> /\ hardware = << >> /\ executed = << >>
CellUntracked ==
    inner_cell = << >> /\ setter = << >> /\ ccalls = << >>
ElfUntracked ==
    image = << >> /\ mappings = << >>
Cr3Untracked ==
    cr3 = << >> /\ crcalls = << >>
KernelUntracked == LocksUntracked /\ FrontUntracked /\ BootUntracked /\ OnceUntracked /\ RandUntracked /\ CellUntracked /\ ElfUntracked /\ Cr3Untracked
BesideLocksUntracked == HeapUntracked /\ GrowthUntracked /\ PmmUntracked /\ FrontUntracked /\ BootUntracked /\ OnceUntracked /\ RandUntracked /\ CellUntracked /\ ElfUntracked /\ Cr3Untracked
BesideFrontUntracked == HeapUntracked /\ GrowthUntracked /\ PmmUntracked /\ LocksUntracked /\ BootUntracked /\ OnceUntracked /\ RandUntracked /\ CellUntracked /\ ElfUntracked /\ Cr3Untracked
BesideBootUntracked == HeapUntracked /\ GrowthUntracked /\ PmmUntracked /\ LocksUntracked /\ FrontUntracked /\ OnceUntracked /\ RandUntracked /\ CellUntracked /\ ElfUntracked /\ Cr3Untracked
BesideOnceUntracked == HeapUntracked /\ GrowthUntracked /\ PmmUntracked /\ LocksUntracked /\ FrontUntracked /\ BootUntracked /\ RandUntracked /\ CellUntracked /\ ElfUntracked /\ Cr3Untracked
BesideRandUntracked == HeapUntracked /\ GrowthUntracked /\ PmmUntracked /\ LocksUntracked /\ FrontUntracked /\ BootUntracked /\ OnceUntracked /\ CellUntracked /\ ElfUntracked /\ Cr3Untracked
BesideCellUntracked == HeapUntracked /\ GrowthUntracked /\ PmmUntracked /\ LocksUntracked /\ FrontUntracked /\ BootUntracked /\ OnceUntracked /\ RandUntracked /\ ElfUntracked /\ Cr3Untracked
BesideElfUntracked == HeapUntracked /\ GrowthUntracked /\ PmmUntracked /\ LocksUntracked /\ FrontUntracked /\ BootUntracked /\ OnceUntracked /\ RandUntracked /\ CellUntracked /\ Cr3Untracked
BesideCr3Untracked == HeapUntracked /\ GrowthUntracked /\ PmmUntracked /\ LocksUntracked /\ FrontUntracked /\ BootUntracked /\ OnceUntracked /\ RandUntracked /\ CellUntracked /\ ElfUntracked

(***************************************************************************)
(* SLOB::new.                                                              *)
(***************************************************************************)
\* NullGuard, had new() not filled the 'null' page.
NullGuard_missing == U64_MIN

\* alloc_table[0].set_full()
NullGuard == U64_MAX

\* new() writes entries 0 and 1 only and does not clear the page it maps for
\* the table: the other entries hold whatever the frame held.  Two contents
\* are considered: a frame of zeroes, and a frame with a stale word in it.
StaleFrames ==
    { [i \in 2 .. (ENTRIES_PER_PAGE - 1) |-> U64_MIN],
      [i \in 2 .. (ENTRIES_PER_PAGE - 1) |-> IF i = 3 THEN {5, 6} ELSE U64_MIN] }

new(stale) ==
    LET alloc_table_len == PAGE_SIZE \div BLOCK_PAGE_BYTES
        mapped_pages == { INITIAL_TABLE_PAGE + page_offset :
                            page_offset \in 0 .. (alloc_table_len - 1 - 1) }
    IN  [ table |-> [i \in 0 .. (alloc_table_len - 1) |->
                        IF i = 0 THEN NullGuard
                        ELSE IF i = INITIAL_TABLE_PAGE THEN U64_MAX ELSE stale[i]],
          base |-> INITIAL_TABLE_PAGE,
          pt |-> [q \in mapped_pages |->
                     IF q = INITIAL_TABLE_PAGE THEN TableFrame(0) ELSE DataFrame] ]

Init ==
    /\ \E stale \in StaleFrames :
          /\ table = new(stale).table
          /\ tableBase = new(stale).base
          /\ pt = new(stale).pt
    /\ live = {}
    /\ halted = "no"
    /\ checks \in BOOLEAN
    /\ ops = 0
    /\ last = NoCall
    /\ prev = NoCall
    /\ GrowthUntracked
    /\ PmmUntracked
    /\ KernelUntracked

(***************************************************************************)
(* Client calls.                                                           *)
(***************************************************************************)
\* GlobalAlloc::alloc(layout)
Alloc(layout) ==
    /\ halted = "no"
    /\ ops < MaxOps
    /\ \E r \in {alloc(table, tableBase, pt, layout.size, layout.align)} :
           /\ ~r.capped
           /\ table' = r.table
           /\ tableBase' = r.base
           /\ pt' = r.pt
           /\ halted' = r.halt
           /\ live' = IF r.halt = "no"
                      THEN live \cup {[ptr |-> r.ptr, size |-> layout.size,
                                       align |-> layout.align]}
                      ELSE live
           /\ last' = [op |-> "alloc", size |-> layout.size, align |-> layout.align,
                       ptr |-> r.ptr, ok |-> r.halt = "no",
                       pre |-> table,
                       mid |-> IF r.snaps = << >> THEN table
                               ELSE r.snaps[Len(r.snaps)].post,
                       snaps |-> r.snaps, automaps |-> r.automaps, unmaps |-> << >>]
    /\ prev' = last
    /\ ops' = ops + 1
    /\ UNCHANGED <<checks, growthVars, pmmVars, kernelVars>>

DeallocCall(ptr, size, align) ==
    \E r \in {dealloc(table, pt, ptr, size, checks)} :
        /\ table' = r.table
        /\ pt' = r.pt
        /\ halted' = r.halt
        /\ last' = [op |-> "dealloc", size |-> size, align |-> align,
                    ptr |-> ptr, ok |-> r.halt = "no",
                    pre |-> table, mid |-> table, snaps |-> << >>,
                    automaps |-> {}, unmaps |-> r.unmaps]
        /\ prev' = last
        /\ ops' = ops + 1
        /\ UNCHANGED <<tableBase, checks, growthVars, pmmVars, kernelVars>>

\* GlobalAlloc::dealloc(ptr, layout) with the pointer and layout of a live
\* allocation.
Dealloc(a) ==
    /\ halted = "no"
    /\ ops < MaxOps
    /\ a \in live
    /\ DeallocCall(a.ptr, a.size, a.align)
    /\ live' = live \ {a}

\* GlobalAlloc::dealloc(ptr, layout) with arguments that match no live
\* allocation (a double free, or a free of a range never allocated).
StrayDealloc(d) ==
    /\ halted = "no"
    /\ ops < MaxOps
    /\ \A a \in live : ~(a.ptr = d.ptr /\ a.size = d.size)
    /\ DeallocCall(d.ptr, d.size, 64)
    /\ UNCHANGED live

Next ==
    \/ \E layout \in AllocInputs : Alloc(layout)
    \/ \E a \in live : Dealloc(a)

Spec == Init /\ [][Next]_vars

NextAny ==
    \/ \E layout \in AllocInputs : Alloc(layout)
    \/ \E a \in live : Dealloc(a)
    \/ \E d \in StrayDeallocInputs : StrayDealloc(d)

SpecAny == Init /\ [][NextAny]_vars

(***************************************************************************)
(* The table's length at machine width.  usize values are 64-bit words     *)
(* (sets of bit positions), so that sums and products wrap or trap as the  *)
(* build makes them.                                                       *)
(***************************************************************************)
\* the word of a number below 2^31
ToWord(n) == { b \in 0 .. 30 : (n \div (2 ^ b)) % 2 = 1 }
MaxBit(w) == CHOOSE b \in w : \A c \in w : c <= b
\* w >> n
Shr(w, n) == { b - n : b \in { c \in w : c >= n } }
\* whether w << n loses a set bit
ShlOverflows(w, n) == \E b \in w : b + n >= BLOCKS_PER
\* the carry into bit i of a + b
RECURSIVE CarryInto(_, _, _)
CarryInto(a, b, i) ==
    IF i = 0 THEN FALSE
    ELSE \/ (i - 1) \in a /\ (i - 1) \in b
         \/ /\ (i - 1) \in a \/ (i - 1) \in b
            /\ CarryInto(a, b, i - 1)
\* a.wrapping_add(b)
WrappingAdd(a, b) == { i \in Bits : ((i \in a) # (i \in b)) # CarryInto(a, b, i) }
AddOverflows(a, b) == CarryInto(a, b, BLOCKS_PER)
\* a < b
WideLess(a, b) ==
    \E i \in b \ a : \A j \in (i + 1) .. (BLOCKS_PER - 1) : (j \in a) <=> (j \in b)
\* log2 of a power of two
RECURSIVE Log2(_)
Log2(n) == IF n <= 1 THEN 0 ELSE 1 + Log2(n \div 2)

\* libkernel::align_up_div(value, alignment), alignment a power of two
wide_align_up_div(value, alignment) ==
    WrappingAdd(Shr(value, Log2(alignment)),
                IF \E b \in value : b < Log2(alignment) THEN {0} ELSE {})
\* libkernel::align_up(value, alignment)
wide_align_up(value, alignment) ==
    Shl(wide_align_up_div(value, alignment), Log2(alignment))

\* usize::next_power_of_two: the value is 0 when the power does not fit
NextPow2Overflows(w) == Cardinality(w) > 1 /\ MaxBit(w) = BLOCKS_PER - 1
wide_next_power_of_two(w) ==
    IF w = {} THEN {0}
    ELSE IF Cardinality(w) = 1 THEN w
    ELSE IF MaxBit(w) = BLOCKS_PER - 1 THEN {}
    ELSE {MaxBit(w) + 1}

\* 0x746A52880000
CeilingBytes ==
    Shl(WrappingAdd(Shl(ToWord(CEILING_PAGES_HI), 16), ToWord(CEILING_PAGES_LO)),
        Log2(PAGE_SIZE))
\* the table length at which the table spans the ceiling
CeilingLen == Shr(CeilingBytes, Log2(PAGE_SIZE))

\* The length arithmetic of SLOB::grow, statement by statement: the result
\* is the length of the slice the table is repointed to, or the panic that
\* stops the call.  The Mapper calls in between are taken to succeed.
grow_len(cur_table_len, required_blocks, chk) ==
    LET pages == wide_align_up_div(required_blocks, BLOCKS_PER)
        sum == WrappingAdd(cur_table_len, pages)
        req_table_len == wide_next_power_of_two(sum)
        new_len == wide_align_up(req_table_len, ENTRIES_PER_PAGE)
        Halt(msg) == [halt |-> msg, len |-> cur_table_len]
    IN  IF required_blocks = {} THEN Halt("calls to grow must be nonzero")
        ELSE IF chk /\ (AddOverflows(cur_table_len, pages) \/ NextPow2Overflows(sum))
        THEN Halt("attempt to add with overflow")
        ELSE IF chk /\ ( \/ ShlOverflows(cur_table_len, Log2(BLOCK_PAGE_BYTES))
                         \/ ShlOverflows(req_table_len, Log2(BLOCK_PAGE_BYTES))
                         \/ ShlOverflows(req_table_len, Log2(PAGE_SIZE)) )
        THEN Halt("attempt to multiply with overflow")
        ELSE IF ~WideLess(Shl(req_table_len, Log2(PAGE_SIZE)), CeilingBytes)
        THEN Halt("Out of memory!")
        \* the slice is repointed (172-177) before table_write[0] is indexed
        ELSE IF new_len = {} THEN [halt |-> "index out of bounds", len |-> new_len]
        ELSE [halt |-> "no", len |-> new_len]

\* Layout sizes of the requests: one block, one page, 512 pages, 2^40 and
\* 2^46 bytes, and the largest page multiple a Layout can hold.
GrowthSizes ==
    { ToWord(BLOCK_SIZE), ToWord(PAGE_SIZE), ToWord(ENTRIES_PER_PAGE * PAGE_SIZE),
      {40}, {46}, 12 .. 62 }

\* A run of size_in_blocks free blocks lies inside the table and outside
\* entry 0, which is full: the table must have that many blocks there.
HasRoom(len, size_in_blocks) ==
    \/ ShlOverflows(WrappingSub1(len), Log2(BLOCKS_PER))
    \/ ~WideLess(Shl(WrappingSub1(len), Log2(BLOCKS_PER)), size_in_blocks)

GrowthInit ==
    /\ gLen = ToWord(PAGE_SIZE \div BLOCK_PAGE_BYTES)
    /\ gBlocks = {}
    /\ gPhase = "idle"
    /\ halted = "no"
    /\ checks \in BOOLEAN
    /\ HeapUntracked
    /\ PmmUntracked
    /\ KernelUntracked

\* alloc(layout) is called: size_in_blocks is computed and the loop entered
GrowthAlloc(size) ==
    /\ halted = "no" /\ gPhase = "idle"
    /\ gBlocks' = wide_align_up_div(size, BLOCK_SIZE)
    /\ gPhase' = "scan"
    /\ UNCHANGED <<gLen, halted, checks, heapVars, pmmVars, kernelVars>>

\* the scan finds a run (break 'outer) and alloc returns.  The entries of
\* the table are not followed here: the scan may find a run whenever the
\* table has room for one.
ScanFinds ==
    /\ halted = "no" /\ gPhase = "scan"
    /\ HasRoom(gLen, gBlocks)
    /\ gPhase' = "idle"
    /\ UNCHANGED <<gLen, gBlocks, halted, checks, heapVars, pmmVars, kernelVars>>

\* the scan reaches the end of the table without a run: self.grow(...)
ScanFailsGrow ==
    /\ halted = "no" /\ gPhase = "scan"
    /\ \E r \in {grow_len(gLen, gBlocks, checks)} :
           /\ gLen' = r.len
           /\ halted' = r.halt
    /\ UNCHANGED <<gBlocks, gPhase, checks, heapVars, pmmVars, kernelVars>>

GrowthNext ==
    \/ \E size \in GrowthSizes : GrowthAlloc(size)
    \/ ScanFinds
    \/ ScanFailsGrow

GrowthSpec == GrowthInit /\ [][GrowthNext]_vars

(***************************************************************************)
(* The physical memory manager (pmm.rs): the frame ledger, one bit per     *)
(* frame, kept as the set of the indices whose bit is set.                 *)
(***************************************************************************)
\* usize::BITS and size_of::<usize>()
USIZE_BITS == 64
USIZE_BYTES == 8
\* libsys::page_shift()
page_shift == Log2(PAGE_SIZE)

\* Option<T>
None == [some |-> FALSE, v |-> 0]
Some(x) == [some |-> TRUE, v |-> x]

\* Address::<Frame>::new(index << page_shift) and Address::index()
AddressOf(index) == index * (2 ^ page_shift)
IndexOf(address) == address \div (2 ^ page_shift)

\* Boot memory maps: entries are [start, end) in bytes with the type the
\* bootloader gave them.  Each describes 64 frames.
MapRegion(first_byte, end_byte, type) == [start |-> first_byte, end |-> end_byte, ty |-> type]
MemoryMaps ==
    { \* usable memory from address 0, a reserved region, a hole at frame 4
      << MapRegion(0, 2 * PAGE_SIZE, "Usable"),
         MapRegion(2 * PAGE_SIZE, 4 * PAGE_SIZE, "Reserved"),
         MapRegion(5 * PAGE_SIZE, USIZE_BITS * PAGE_SIZE, "Usable") >>,
      \* a reserved first page
      << MapRegion(0, PAGE_SIZE, "Reserved"),
         MapRegion(PAGE_SIZE, USIZE_BITS * PAGE_SIZE, "Usable") >>,
      \* a first region that does not start on a page boundary
      << MapRegion(PAGE_SIZE \div 2, 3 * PAGE_SIZE, "Usable"),
         MapRegion(3 * PAGE_SIZE, USIZE_BITS * PAGE_SIZE, "Usable") >>,
      \* no region that starts on a page boundary
      << MapRegion(PAGE_SIZE \div 2, USIZE_BITS * PAGE_SIZE, "Usable") >> }

\* memory_map.iter().map(|region| region.range() ..): every entry, whatever
\* its type
free_regions(memory_map) ==
    [i \in DOMAIN memory_map |->
        [start |-> memory_map[i].start, end |-> memory_map[i].end]]
\* memory_map.iter().last().unwrap().range().end
total_memory(memory_map) == memory_map[Len(memory_map)].end

\* FrameAllocator::new: [some, len, first, end, bits, halt]: the ledger's
\* length in bits, the frames [first, end) its storage occupies, and the
\* bits set.
FrameAllocator_new(regions, total) ==
    LET total_frames == total \div PAGE_SIZE
        table_slice_len == total_frames \div USIZE_BITS
        table_size_in_frames == align_up_div(table_slice_len * USIZE_BYTES, 2 ^ page_shift)
        table_size_in_bytes == table_size_in_frames * PAGE_SIZE
        fits == { i \in DOMAIN regions :
                    /\ regions[i].start % PAGE_SIZE = 0
                    /\ regions[i].end - regions[i].start >= table_size_in_bytes }
        found == CHOOSE i \in fits : \A j \in fits : i <= j
        select_start == regions[found].start
        select_end == select_start + table_size_in_bytes
        ledger_start_index == select_start \div PAGE_SIZE
        ledger_end_index == select_end \div PAGE_SIZE
        len == table_slice_len * USIZE_BITS
    IN  IF fits = {}
        THEN [some |-> FALSE, len |-> 0, first |-> 0, end |-> 0, bits |-> {},
              halt |-> "called Option::unwrap() on a None value"]
        ELSE IF ledger_end_index > len
        THEN [some |-> FALSE, len |-> 0, first |-> 0, end |-> 0, bits |-> {},
              halt |-> "range end index out of range"]
        ELSE [some |-> TRUE, len |-> len,
              first |-> ledger_start_index, end |-> ledger_end_index,
              bits |-> ledger_start_index .. (ledger_end_index - 1),
              halt |-> "no"]

\* static PMM: FrameAllocator::new(free_regions, total_memory).unwrap()
PMM_init(memory_map) ==
    FrameAllocator_new(free_regions(memory_map), total_memory(memory_map))

\* table.len(), and the frames the ledger itself is stored in
LedgerLen == IF memoryMap = << >> THEN 0 ELSE PMM_init(memoryMap).len
LedgerFrames ==
    IF memoryMap = << >> THEN {}
    ELSE PMM_init(memoryMap).first .. (PMM_init(memoryMap).end - 1)

\* SetBit, had the bit been left as it was.
SetBit_skipped(bits, index) == bits

\* table.set(index, true) / set_aliased(index, true)
SetBit(bits, index) == bits \cup {index}

\* ClearBit, had the bit been left as it was.
ClearBit_skipped(bits, index) == bits

\* ClearBit, had the bit been flipped instead of cleared.
ClearBit_toggles(bits, index) == (bits \ {index}) \cup ({index} \ bits)

\* set_aliased(index, false)
ClearBit(bits, index) == bits \ {index}

\* table.first_zero()
first_zero(bits, len) ==
    LET zeros == { i \in 0 .. (len - 1) : i \notin bits }
    IN  IF zeros = {} THEN None
        ELSE Some(CHOOSE i \in zeros : \A j \in zeros : i <= j)

\* WindowFree, had only the first frame of the window been looked at.
WindowFree_first_only(bits, index, count) == index \notin bits

\* window.not_any()
WindowFree(bits, index, count) ==
    \A k \in 0 .. (count - 1) : (index + k) \notin bits

\* u32::max(1, align_bits.unwrap_or(NonZeroU32::MIN).get() >> page_shift())
align_index_skip(align_bits) ==
    Max(1, (IF align_bits.some THEN align_bits.v ELSE 1) \div (2 ^ page_shift))

\* WindowSearch, had windows that run past the end of the ledger been
\* looked at as well.
WindowSearch_past_end(bits, len, count, skip, index) ==
    LET starts == { i \in index .. (len - 1) : i % skip = 0 /\ WindowFree(bits, i, count) }
    IN  IF starts = {} THEN None
        ELSE Some(CHOOSE i \in starts : \A j \in starts : i <= j)

\* table.windows(count).enumerate().step_by(skip).find_map(..), from `index`
RECURSIVE WindowSearch(_, _, _, _, _)
WindowSearch(bits, len, count, skip, index) ==
    IF index + count > len THEN None
    ELSE IF WindowFree(bits, index, count) THEN Some(index)
    ELSE WindowSearch(bits, len, count, skip, index + skip)

\* window.fill(true)
FillWindow(bits, index, count) == bits \cup (index .. (index + count - 1))

PmmResult(ok, err, index, bits) == [ok |-> ok, err |-> err, index |-> index, ledger |-> bits]

\* FrameAllocator::next_frame
next_frame(bits, len) ==
    LET index == first_zero(bits, len)
    IN  IF ~index.some THEN PmmResult(FALSE, "NoneFree", 0, bits)
        ELSE PmmResult(TRUE, "none", index.v, SetBit(bits, index.v))

\* FrameAllocator::next_frames
next_frames(bits, len, count, align_bits) ==
    LET index == WindowSearch(bits, len, count, align_index_skip(align_bits), 0)
    IN  IF ~index.some THEN PmmResult(FALSE, "NoneFree", 0, bits)
        ELSE PmmResult(TRUE, "none", index.v, FillWindow(bits, index.v, count))

\* FrameAllocator::lock_frame
lock_frame(bits, len, address) ==
    IF IndexOf(address) >= len THEN PmmResult(FALSE, "OutOfBounds", IndexOf(address), bits)
    ELSE PmmResult(TRUE, "none", IndexOf(address), SetBit(bits, IndexOf(address)))

\* FrameAllocator::free_frame
free_frame(bits, len, address) ==
    IF IndexOf(address) >= len THEN PmmResult(FALSE, "OutOfBounds", IndexOf(address), bits)
    ELSE PmmResult(TRUE, "none", IndexOf(address), ClearBit(bits, IndexOf(address)))

\* The cores, and the RwLock around the ledger.
Cores == {"bsp", "ap"}
NoLock == [writer |-> "none", readers |-> {}]

\* CanWrite, had the lock let a second writer in.
CanWrite_second_writer(l) == l.readers = {}

\* table.write(): no reader and no writer holds the lock
CanWrite(l) == l.writer = "none" /\ l.readers = {}

\* CanRead, had the lock let a reader in beside the writer.
CanRead_beside_writer(l) == TRUE

\* table.read(): no writer holds the lock
CanRead(l) == l.writer = "none"

HoldsLock(c) == lock.writer = c \/ c \in lock.readers

\* A core outside any PMM call.
Idle == [at |-> "idle", op |-> "none", count |-> 0, align |-> None, address |-> 0,
         index |-> 0, filled |-> 0, ok |-> FALSE, err |-> "none", pre |-> {}, post |-> {},
         overlap |-> FALSE]

\* Arguments of the calls.
FrameCounts == {2, 3, USIZE_BITS - 1, USIZE_BITS + 1}
AlignInputs == { None, Some(page_shift), Some(2 * PAGE_SIZE) }
\* The requests made of next_frames: the long runs are asked for unaligned.
FrameRequests ==
    { q \in [count : FrameCounts, align : AlignInputs] :
        q.count < USIZE_BITS - 1 \/ q.align = None }
AddressInputs == { AddressOf(index) : index \in {0, 1, 2, 3, USIZE_BITS} }

PmmInit ==
    /\ \E m \in MemoryMaps :
          /\ memoryMap = m
          /\ ledger = PMM_init(m).bits
          /\ halted = PMM_init(m).halt
    /\ pcalls = << >>
    /\ lock = NoLock
    /\ pc = [c \in Cores |-> Idle]
    /\ checks = FALSE
    /\ HeapUntracked
    /\ GrowthUntracked
    /\ KernelUntracked

\* What a returned call leaves in `pcalls`: the call, its result, the ledger
\* as it found and left it, and whether another core was in a call when it
\* was made.
CallRecord(c, op, count, align, address, r, pre, overlap) ==
    [core |-> c, op |-> op, count |-> count, align |-> align, address |-> address,
     ok |-> r.ok, err |-> r.err, index |-> r.index, pre |-> pre, post |-> r.ledger,
     overlap |-> overlap]

(***************************************************************************)
(* PmmSpec: the calls one after the other, each under its lock from        *)
(* beginning to end.                                                       *)
(***************************************************************************)
Returned(op, count, align, address, r) ==
    /\ ledger' = r.ledger
    /\ pcalls' = Append(pcalls, CallRecord("bsp", op, count, align, address, r, ledger, FALSE))
    /\ UNCHANGED <<memoryMap, lock, pc, halted, checks, heapVars, growthVars, kernelVars>>

CanCall == halted = "no" /\ Len(pcalls) < MaxPmmOps

NextFrame ==
    /\ CanCall
    /\ \E r \in {next_frame(ledger, LedgerLen)} :
           Returned("next_frame", 1, None, AddressOf(r.index), r)

NextFrames(count, align_bits) ==
    /\ CanCall
    /\ \E r \in {next_frames(ledger, LedgerLen, count, align_bits)} :
           Returned("next_frames", count, align_bits, AddressOf(r.index), r)

LockFrame(address) ==
    /\ CanCall
    /\ \E r \in {lock_frame(ledger, LedgerLen, address)} :
           Returned("lock_frame", 1, None, address, r)

FreeFrame(address) ==
    /\ CanCall
    /\ \E r \in {free_frame(ledger, LedgerLen, address)} :
           Returned("free_frame", 1, None, address, r)

PmmNext ==
    \/ NextFrame
    \/ \E q \in FrameRequests : NextFrames(q.count, q.align)
    \/ \E address \in AddressInputs : LockFrame(address)
    \/ \E address \in AddressInputs : FreeFrame(address)

PmmSpec == PmmInit /\ [][PmmNext]_vars

(***************************************************************************)
(* CoresSpec: the calls of two cores, step by step.  A call takes the      *)
(* lock, acts on the ledger, and releases the lock as it returns.          *)
(***************************************************************************)
CoreCalls ==
    { [op |-> "next_frame", count |-> 1, align |-> None, address |-> 0],
      [op |-> "next_frames", count |-> 2, align |-> None, address |-> 0],
      [op |-> "next_frames", count |-> 3, align |-> Some(2 * PAGE_SIZE), address |-> 0],
      [op |-> "lock_frame", count |-> 1, align |-> None, address |-> AddressOf(2)],
      [op |-> "free_frame", count |-> 1, align |-> None, address |-> AddressOf(2)] }

Started == Len(pcalls) + Cardinality({ c \in Cores : pc[c].at # "idle" })
Writes(op) == op \in {"next_frame", "next_frames"}

\* a core enters a PMM function
CoreCall(c, call) ==
    /\ halted = "no" /\ pc[c].at = "idle" /\ Started < MaxCoreCalls
    /\ pc' = [pc EXCEPT ![c] = [Idle EXCEPT !.at = "acquire", !.op = call.op,
                                            !.count = call.count, !.align = call.align,
                                            !.address = call.address,
                                            !.overlap = \E d \in Cores \ {c} :
                                                            pc[d].at # "idle"]]
    /\ UNCHANGED <<memoryMap, ledger, pcalls, lock, halted, checks, heapVars, growthVars, kernelVars>>

\* let mut table = table.write()
AcquireWrite(c) ==
    /\ pc[c].at = "acquire" /\ Writes(pc[c].op)
    /\ CanWrite(lock)
    /\ lock' = [lock EXCEPT !.writer = c]
    /\ pc' = [pc EXCEPT ![c].at = "search"]
    /\ UNCHANGED <<memoryMap, ledger, pcalls, halted, checks, heapVars, growthVars, kernelVars>>

\* let table = table.read()
AcquireRead(c) ==
    /\ pc[c].at = "acquire" /\ ~Writes(pc[c].op)
    /\ CanRead(lock)
    /\ lock' = [lock EXCEPT !.readers = @ \cup {c}]
    /\ pc' = [pc EXCEPT ![c].at = "set"]
    /\ UNCHANGED <<memoryMap, ledger, pcalls, halted, checks, heapVars, growthVars, kernelVars>>

\* first_zero() / windows(..).find_map(..): the search, before any bit is set
Search(c) ==
    /\ pc[c].at = "search"
    /\ \E found \in { IF pc[c].op = "next_frame" THEN first_zero(ledger, LedgerLen)
                      ELSE WindowSearch(ledger, LedgerLen, pc[c].count,
                                        align_index_skip(pc[c].align), 0) } :
           pc' = [pc EXCEPT ![c] =
                     IF found.some
                     THEN [@ EXCEPT !.at = "fill", !.index = found.v, !.filled = 0,
                                    !.pre = ledger]
                     ELSE [@ EXCEPT !.at = "release", !.ok = FALSE, !.err = "NoneFree",
                                    !.pre = ledger, !.post = ledger]]
    /\ UNCHANGED <<memoryMap, ledger, pcalls, lock, halted, checks, heapVars, growthVars, kernelVars>>

\* table.set(index, true) / window.fill(true): one bit of the run is set
Fill(c) ==
    /\ pc[c].at = "fill"
    /\ ledger' = SetBit(ledger, pc[c].index + pc[c].filled)
    /\ pc' = [pc EXCEPT ![c] =
                 IF pc[c].filled + 1 = pc[c].count
                 THEN [@ EXCEPT !.at = "release", !.filled = @ + 1, !.ok = TRUE,
                                !.post = ledger']
                 ELSE [@ EXCEPT !.filled = @ + 1]]
    /\ UNCHANGED <<memoryMap, pcalls, lock, halted, checks, heapVars, growthVars, kernelVars>>

\* the bounds check and set_aliased(index, ..) of lock_frame / free_frame
SetAliased(c) ==
    /\ pc[c].at = "set"
    /\ \E r \in { IF pc[c].op = "lock_frame"
                  THEN lock_frame(ledger, LedgerLen, pc[c].address)
                  ELSE free_frame(ledger, LedgerLen, pc[c].address) } :
           /\ ledger' = r.ledger
           /\ pc' = [pc EXCEPT ![c] = [@ EXCEPT !.at = "release", !.ok = r.ok,
                                                !.err = r.err, !.index = r.index,
                                                !.pre = ledger, !.post = r.ledger]]
    /\ UNCHANGED <<memoryMap, pcalls, lock, halted, checks, heapVars, growthVars, kernelVars>>

\* the guard is dropped and the call returns
Release(c) ==
    /\ pc[c].at = "release"
    /\ lock' = [writer |-> IF lock.writer = c THEN "none" ELSE lock.writer,
                readers |-> lock.readers \ {c}]
    /\ pcalls' = Append(pcalls,
                        CallRecord(c, pc[c].op, pc[c].count, pc[c].align,
                                   IF Writes(pc[c].op) THEN AddressOf(pc[c].index)
                                   ELSE pc[c].address,
                                   PmmResult(pc[c].ok, pc[c].err, pc[c].index, pc[c].post),
                                   pc[c].pre, pc[c].overlap))
    /\ pc' = [pc EXCEPT ![c] = Idle]
    /\ UNCHANGED <<memoryMap, ledger, halted, checks, heapVars, growthVars, kernelVars>>

CoresNext ==
    \E c \in Cores :
        \/ \E call \in CoreCalls : CoreCall(c, call)
        \/ AcquireWrite(c)
        \/ AcquireRead(c)
        \/ Search(c)
        \/ Fill(c)
        \/ SetAliased(c)
        \/ Release(c)

CoresSpec == PmmInit /\ [][CoresNext]_vars

(***************************************************************************)
(* Vocabulary of the properties.                                           *)
(***************************************************************************)
\* Pages that hold the tracking table itself.
TablePagesOf(t, base) ==
    base .. (base + align_up_div(TableLen(t) * BLOCK_PAGE_BYTES, PAGE_SIZE) - 1)
TablePages == TablePagesOf(table, tableBase)

\* The block range [ptr/64, ptr/64 + ceil(size/64)) of a call.
FirstBlock(c) == c.ptr \div BLOCK_SIZE
EndBlock(c) == FirstBlock(c) + align_up_div(c.size, BLOCK_SIZE)
Overlap(a, b) ==
    /\ FirstBlock(a) < EndBlock(a)
    /\ FirstBlock(b) < EndBlock(b)
    /\ FirstBlock(a) < EndBlock(b)
    /\ FirstBlock(b) < EndBlock(a)

\* The bits of table entry i that belong to the block range of call c.
RangeBits(c, i) ==
    { b \in Bits : i * BLOCKS_PER + b >= FirstBlock(c) /\ i * BLOCKS_PER + b < EndBlock(c) }
\* The table pages whose blocks the range of call c touches.
RangePages(c) ==
    { i \in (FirstBlock(c) \div BLOCKS_PER) .. (EndBlock(c) \div BLOCKS_PER) :
        RangeBits(c, i) # {} }

AllocReturned == last.op = "alloc" /\ last.ok
Grew == last.op = "alloc" /\ last.snaps # << >>

(***************************************************************************)
(* C1: no two allocations that are live at the same time have overlapping  *)
(* block ranges.                                                           *)
(***************************************************************************)
C1_LiveRangesDisjoint ==
    \A a \in live : \A b \in live : a # b => ~Overlap(a, b)

(***************************************************************************)
(* C2: a successful alloc marks as used exactly the blocks of the range it *)
(* returns: every block of the range is used afterwards and no other bit   *)
(* of the table (as it stood when the run was found) changes.              *)
(***************************************************************************)
C2_AllocMarksExactlyItsRange ==
    AllocReturned =>
        \A i \in DOMAIN table : table[i] = BitOr(last.mid[i], RangeBits(last, i))

(***************************************************************************)
(* C3: allocating exactly one page's worth of blocks succeeds, and the     *)
(* matching dealloc returns normally and restores the table to its         *)
(* pre-alloc bit pattern.                                                  *)
(***************************************************************************)
C3_FullPageRoundTrip ==
    /\ (last.op = "alloc" /\ last.size = PAGE_SIZE) => last.ok
    /\ ( /\ last.op = "dealloc"
         /\ prev.op = "alloc" /\ prev.ok /\ prev.snaps = << >>
         /\ prev.size = PAGE_SIZE
         /\ last.ptr = prev.ptr /\ last.size = prev.size /\ last.align = prev.align )
       => (last.ok /\ table = prev.pre)

(***************************************************************************)
(* C4: alloc with size 0 succeeds, and the matching dealloc with size 0    *)
(* returns normally and leaves every table entry unchanged.                *)
(***************************************************************************)
C4_ZeroSizeRoundTrip ==
    /\ (last.op = "alloc" /\ last.size = 0) => last.ok
    /\ (last.op = "dealloc" /\ last.size = 0) => (last.ok /\ table = last.pre)

(***************************************************************************)
(* C5: a dealloc of a range of 1 to 64 blocks (inside the table) in which  *)
(* at least one block is free halts with the 'already deallocated'         *)
(* assertion and never returns normally.                                   *)
(***************************************************************************)
C5_DoubleFreeHalts ==
    ( /\ last.op = "dealloc"
      /\ EndBlock(last) - FirstBlock(last) \in 1 .. BLOCKS_PER
      /\ EndBlock(last) <= TableLen(last.pre) * BLOCKS_PER
      /\ \E i \in RangePages(last) : BitAnd(last.pre[i], RangeBits(last, i)) # RangeBits(last, i) )
    => halted = "attempting to deallocate blocks that are already deallocated"

(***************************************************************************)
(* C6: the address returned by alloc(size, align) is a multiple of align.  *)
(***************************************************************************)
C6_ReturnedAddressAligned ==
    AllocReturned => last.ptr % last.align = 0

(***************************************************************************)
(* C7: entry 0 of the table is fully-used in every state, and alloc never  *)
(* returns the null address nor an address inside page 0.                  *)
(***************************************************************************)
C7_NullPageReserved ==
    /\ is_full(table[0])
    /\ AllocReturned => last.ptr >= PAGE_SIZE
    /\ \A a \in live : a.ptr >= PAGE_SIZE

\* an alloc that relocated the table has returned, and a client block is live
C7_Witness ==
    /\ Grew /\ last.ok /\ tableBase # INITIAL_TABLE_PAGE
    /\ Cardinality(live) >= 2

(***************************************************************************)
(* C8: every entry whose page is part of the table's backing storage is    *)
(* fully-used (all table pages, not only the first), and alloc never       *)
(* returns a range that touches the table's own pages.                     *)
(***************************************************************************)
C8_TablePagesFull ==
    /\ \A i \in TablePages : is_full(table[i])
    /\ AllocReturned => RangePages(last) \cap TablePages = {}

\* after a grow the table occupies more than one page, and alloc returned
C8_Witness ==
    /\ Grew /\ last.ok
    /\ Cardinality(TablePages) > 1

(***************************************************************************)
(* C9: a grow preserves every client block: every entry below the old      *)
(* table length that is outside the old and the new table's own pages is   *)
(* identical before and after the grow.                                    *)
(***************************************************************************)
C9_GrowPreservesClientBlocks ==
    \A k \in 1 .. Len(last.snaps) :
        LET s == last.snaps[k]
        IN  \A i \in DOMAIN s.pre :
                i \notin (TablePagesOf(s.pre, s.preBase) \cup TablePagesOf(s.post, s.postBase))
                => s.post[i] = s.pre[i]

\* a grow that appended the table at the end of a range full of client blocks
C9_Witness ==
    /\ Grew
    /\ LET s == last.snaps[1]
       IN  /\ s.postBase = TableLen(s.pre)
           /\ \E i \in DOMAIN s.pre :
                 /\ i # 0 /\ i \notin TablePagesOf(s.pre, s.preBase)
                 /\ ~is_empty(s.pre[i])

(***************************************************************************)
(* C10: between operations a heap page outside the table's backing storage *)
(* (and other than the null page) is mapped exactly when its entry is      *)
(* nonempty, and alloc asks auto_map only for pages that are not mapped.   *)
(***************************************************************************)
C10_LazyBacking ==
    /\ \A i \in (DOMAIN table) \ (TablePages \cup {0}) :
          IsMapped(pt, i) <=> ~is_empty(table[i])
    /\ \A m \in last.automaps : ~m.present

(***************************************************************************)
(* C11: a dealloc call makes exactly one unmap call for every page whose   *)
(* entry it takes from nonempty to empty, and no unmap call for any other  *)
(* page: not for a page that still has a used block after the call, and    *)
(* not for a page that was empty before it.                                *)
(***************************************************************************)
C11_UnmapOnLastBlock ==
    last.op = "dealloc" =>
        /\ \A k \in DOMAIN last.unmaps : last.unmaps[k] \in DOMAIN last.pre
        /\ \A i \in DOMAIN last.pre :
              Cardinality({ k \in DOMAIN last.unmaps : last.unmaps[k] = i })
                = IF ~is_empty(last.pre[i]) /\ is_empty(table[i]) THEN 1 ELSE 0

\* a dealloc returned having released one page and kept another it visited
C11_Witness ==
    /\ last.op = "dealloc" /\ last.ok
    /\ last.unmaps # << >>
    /\ \E i \in RangePages(last) : ~is_empty(table[i])

(***************************************************************************)
(* C12: an alloc call with a nonzero size ends after finitely many grows,  *)
(* with a run found or with the 'Out of memory!' assertion once the        *)
(* required table length times 4096 reaches the span ceiling: the table    *)
(* never reaches the length that spans the ceiling, and the loop is left   *)
(* by no other halt.                                                       *)
(***************************************************************************)
C12_GrowthEndsAtCeiling ==
    /\ WideLess(gLen, CeilingLen)
    /\ halted \in {"no", "Out of memory!"}

(***************************************************************************)
(* Vocabulary of the ledger's properties.                                  *)
(***************************************************************************)
\* the frames a returned call was granted
IsGrant(r) == r.op \in {"next_frame", "next_frames"} /\ r.ok
Granted(r) == r.index .. (r.index + r.count - 1)
\* no free_frame call returned between calls i and j
NoFreeBetween(i, j) == \A m \in i .. j : pcalls[m].op # "free_frame"

(***************************************************************************)
(* C13: next_frame never returns a frame whose bit was set when it was     *)
(* called, and two next_frame calls with no free_frame between them never  *)
(* return the same index.                                                  *)
(***************************************************************************)
C13_NextFrameReturnsFreeFrame ==
    /\ \A k \in DOMAIN pcalls :
          (pcalls[k].op = "next_frame" /\ pcalls[k].ok)
          => pcalls[k].index \notin pcalls[k].pre
    /\ \A i \in DOMAIN pcalls : \A j \in DOMAIN pcalls :
          ( /\ i < j
            /\ pcalls[i].op = "next_frame" /\ pcalls[i].ok
            /\ pcalls[j].op = "next_frame" /\ pcalls[j].ok
            /\ NoFreeBetween(i, j) )
          => pcalls[i].index # pcalls[j].index

\* three next_frame calls returned one after the other
C13_Witness ==
    /\ Len(pcalls) = MaxPmmOps
    /\ \A k \in DOMAIN pcalls : pcalls[k].op = "next_frame" /\ pcalls[k].ok

(***************************************************************************)
(* C14: frame allocation is first-fit.  next_frame returns the lowest free *)
(* index; next_frames(count, align) returns the lowest index that is a     *)
(* multiple of the alignment stride and starts count consecutive free      *)
(* frames inside the ledger, whatever used frames interrupt the runs below *)
(* it; each reports NoneFree only when there is no such index.  (Stated of *)
(* the call that returned last: every call is the last one when it         *)
(* returns.)                                                               *)
(***************************************************************************)
FitsAt(bits, i, count, stride) ==
    /\ i % stride = 0
    /\ i + count <= LedgerLen
    /\ \A f \in i .. (i + count - 1) : f \notin bits

C14_FirstFit ==
    \A k \in {Len(pcalls)} \ {0} :
        LET r == pcalls[k]
            count == IF r.op = "next_frame" THEN 1 ELSE r.count
            stride == IF r.op = "next_frame" THEN 1 ELSE align_index_skip(r.align)
        IN  r.op \in {"next_frame", "next_frames"} =>
                IF r.ok
                THEN /\ FitsAt(r.pre, r.index, count, stride)
                     /\ \A i \in 0 .. (r.index - 1) : ~FitsAt(r.pre, i, count, stride)
                ELSE /\ \A i \in 0 .. (LedgerLen - 1) : ~FitsAt(r.pre, i, count, stride)
                     /\ r.err = "NoneFree"

\* with frames 0 to 5 used, next_frames(3, None) returned frame 6
C14_Witness ==
    \E k \in DOMAIN pcalls :
        /\ pcalls[k].op = "next_frames" /\ pcalls[k].count = 3 /\ pcalls[k].align = None
        /\ pcalls[k].pre = 0 .. 5
        /\ pcalls[k].ok /\ pcalls[k].index = 6

(***************************************************************************)
(* C15: a successful next_frames(n, align) followed by free_frame on each  *)
(* of the n frames it returned leaves every bit of the ledger as it was    *)
(* before the next_frames call.                                            *)
(***************************************************************************)
C15_ClaimThenFreeRestores ==
    \A k \in DOMAIN pcalls :
        LET r == pcalls[k]
            n == r.count
        IN  ( /\ r.op = "next_frames" /\ r.ok
              /\ k + n = Len(pcalls)
              /\ \A j \in 1 .. n : pcalls[k + j].op = "free_frame"
              /\ { pcalls[k + j].address : j \in 1 .. n } = { AddressOf(f) : f \in Granted(r) } )
            => /\ \A j \in 1 .. n : pcalls[k + j].ok
               /\ ledger = r.pre

\* next_frames(2, ..) returned and both of its frames were freed afterwards
C15_Witness ==
    /\ Len(pcalls) = 3
    /\ pcalls[1].op = "next_frames" /\ pcalls[1].ok /\ pcalls[1].count = 2
    /\ pcalls[2].op = "free_frame" /\ pcalls[3].op = "free_frame"
    /\ { pcalls[2].index, pcalls[3].index } = Granted(pcalls[1])

(***************************************************************************)
(* C16: next_frames claims its run atomically.  From the search that found *)
(* the run until all count bits are set, no other core holds the ledger's  *)
(* lock (the only way to read or write the ledger), so no call on another  *)
(* core sees or changes a ledger with only part of the run set.            *)
(***************************************************************************)
\* core c has found its run and has not yet set all of its bits
InClaim(c) == pc[c].op = "next_frames" /\ pc[c].at = "fill"

C16_RunClaimedAtomically ==
    \A c \in Cores : InClaim(c) => \A d \in Cores \ {c} : ~HoldsLock(d)

\* a core has set one bit of its run of three while the other core is
\* waiting for the lock in free_frame
C16_Witness ==
    \E c \in Cores : \E d \in Cores \ {c} :
        /\ InClaim(c) /\ pc[c].count = 3 /\ pc[c].filled = 1
        /\ pc[d].op = "free_frame" /\ pc[d].at = "acquire"

(***************************************************************************)
(* C17: the frame ranges that next_frame and next_frames calls on several  *)
(* cores return are pairwise disjoint, as long as no frame has been freed  *)
(* in between.                                                             *)
(***************************************************************************)
C17_ConcurrentGrantsDisjoint ==
    \A i \in DOMAIN pcalls : \A j \in DOMAIN pcalls :
        ( /\ i < j
          /\ IsGrant(pcalls[i]) /\ IsGrant(pcalls[j])
          /\ NoFreeBetween(i, j)
          /\ \A c \in Cores : pc[c].op # "free_frame" )
        => Granted(pcalls[i]) \cap Granted(pcalls[j]) = {}

\* a core made its call while the other core was in its own, and each was
\* granted frames
C17_Witness ==
    /\ Len(pcalls) = 2
    /\ IsGrant(pcalls[1]) /\ IsGrant(pcalls[2])
    /\ pcalls[1].core # pcalls[2].core
    /\ pcalls[2].overlap
    /\ pcalls[1].op = "next_frames" /\ pcalls[2].op = "next_frame"

(***************************************************************************)
(* C18: in every state after FrameAllocator::new, whatever next_frame,     *)
(* next_frames, lock_frame and free_frame calls were made, frame 0 and     *)
(* every frame that holds the ledger's own bitmap are marked used.         *)
(***************************************************************************)
C18_NullAndLedgerFramesUsed ==
    halted = "no" => (0 \in ledger /\ LedgerFrames \subseteq ledger)

(***************************************************************************)
(* C19: lock_frame on a frame that is marked used does not report success, *)
(* so that no frame has two holders.                                       *)
(***************************************************************************)
C19_LockFrameRejectsUsedFrame ==
    \A k \in DOMAIN pcalls :
        (pcalls[k].op = "lock_frame" /\ pcalls[k].index \in pcalls[k].pre)
        => ~pcalls[k].ok

(***************************************************************************)
(* C20: the ledger is built over usable regions only: its own storage lies *)
(* in a region of usable type, and next_frame / next_frames never return a *)
(* frame outside the regions the boot memory map describes as usable.      *)
(***************************************************************************)
\* the frames that lie wholly inside a region of usable type
UsableFrames ==
    { f \in 0 .. (LedgerLen - 1) :
        \E i \in DOMAIN memoryMap :
            /\ memoryMap[i].ty = "Usable"
            /\ memoryMap[i].start <= AddressOf(f)
            /\ AddressOf(f + 1) <= memoryMap[i].end }

C20_LedgerOverUsableRegions ==
    halted = "no" =>
        /\ LedgerFrames \subseteq UsableFrames
        /\ \A k \in DOMAIN pcalls :
              IsGrant(pcalls[k]) => Granted(pcalls[k]) \subseteq UsableFrames

(***************************************************************************)
(* C21: free_frame is an idempotent clear.  On a frame inside the ledger   *)
(* that is already free it returns Ok and leaves every bit as it was, and  *)
(* a second free_frame of the same frame right after the first leaves the  *)
(* ledger as the first left it.                                            *)
(***************************************************************************)
C21_FreeFrameIdempotent ==
    \A k \in DOMAIN pcalls :
        LET r == pcalls[k]
        IN  (r.op = "free_frame" /\ r.index < LedgerLen) =>
                /\ r.ok
                /\ r.index \notin r.pre => r.post = r.pre
                /\ ( /\ k > 1
                     /\ pcalls[k - 1].op = "free_frame"
                     /\ pcalls[k - 1].address = r.address )
                   => r.post = pcalls[k - 1].post

\* a used frame was freed twice in a row
C21_Witness ==
    \E k \in DOMAIN pcalls :
        /\ k > 1
        /\ pcalls[k].op = "free_frame" /\ pcalls[k - 1].op = "free_frame"
        /\ pcalls[k].address = pcalls[k - 1].address
        /\ pcalls[k - 1].index \in pcalls[k - 1].pre
        /\ pcalls[k].ok

(***************************************************************************)
(* C22: when the ledger has no free frame (next_frame) or no run of count  *)
(* free frames at a multiple of the stride (next_frames, also with count   *)
(* larger than the ledger), the call returns NoneFree, leaves every bit of *)
(* the ledger as it was, and does not panic.                               *)
(***************************************************************************)
C22_ExhaustionReturnsNoneFree ==
    /\ pcalls # << >> => halted = "no"
    /\ \A k \in {Len(pcalls)} \ {0} :
          LET r == pcalls[k]
              count == IF r.op = "next_frame" THEN 1 ELSE r.count
              stride == IF r.op = "next_frame" THEN 1 ELSE align_index_skip(r.align)
          IN  ( /\ r.op \in {"next_frame", "next_frames"}
                /\ \A i \in 0 .. (LedgerLen - 1) : ~FitsAt(r.pre, i, count, stride) )
              => (~r.ok /\ r.err = "NoneFree" /\ r.post = r.pre /\ ledger = r.pre)

\* next_frame found the ledger full after next_frames had asked for more
\* frames than the ledger has
C22_Witness ==
    /\ Len(pcalls) = 3
    /\ pcalls[1].op = "next_frames" /\ pcalls[1].count > LedgerLen
    /\ pcalls[1].err = "NoneFree"
    /\ pcalls[3].op = "next_frame" /\ pcalls[3].err = "NoneFree"
    /\ pcalls[3].pre = 0 .. (LedgerLen - 1)

(***************************************************************************)
(* LocksSpec: two cores calling into the heap (alloc, dealloc) and the     *)
(* ledger (next_frame), step by step.  A core takes an interrupt whenever  *)
(* its interrupt flag is set; the handler calls into one of the two        *)
(* components and runs to its end before the interrupted code goes on.     *)
(***************************************************************************)
MaxLockCalls == 2
MaxIrqs == 1
MaxGrows == 1

HeapCalls == {"alloc", "dealloc"}
HandlerCalls == {"alloc", "next_frame"}

\* A core outside any call, interrupts enabled.
Running == [call |-> "none", at |-> "idle", enabled |-> TRUE, saved |-> TRUE,
            irq |-> "none", irqAt |-> "none", calls |-> 0, irqs |-> 0]
NoMigration == [phase |-> "none", mover |-> "none", grows |-> 0]

\* The lock a call takes.
LockOf(call) == IF call \in HeapCalls THEN tableLock ELSE ledgerLock

\* the main code of core c is inside a critical section
InCriticalSection(c) ==
    cpu[c].at \in {"scan", "remap", "swap", "mark_new", "clear_old", "carve", "clear", "set"}

\* RwLock::write, had it returned a guard without taking the lock.
RwLock_write_not_taken(l, c) == l

\* RwLock::write: the lock is the caller's once write() returns
RwLock_write(l, c) == [l EXCEPT !.writer = c]

\* the guard is dropped
RwLock_drop(l, c) == [l EXCEPT !.writer = "none"]

\* InterruptCell::with: the interrupt flag is saved and cleared before the
\* closure runs ...
InterruptCell_mask(core) == [core EXCEPT !.saved = core.enabled, !.enabled = FALSE]

\* ... and put back as the closure returns.
InterruptCell_restore(core) == [core EXCEPT !.enabled = core.saved]

\* a table access by core c, by its main code or by its handler
Access(c, by) == [core |-> c, by |-> by, phase |-> migration.phase, mover |-> migration.mover]

LocksInit ==
    /\ tableLock = NoLock /\ ledgerLock = NoLock
    /\ cpu = [c \in Cores |-> Running]
    /\ migration = NoMigration
    /\ seen = {}
    /\ halted = "no" /\ checks = TRUE
    /\ BesideLocksUntracked

\* the main code of core c takes its next step: its handler is not running
Runs(c) == cpu[c].irq = "none"

\* GlobalAlloc::alloc / dealloc is entered: the arithmetic before the lock
HeapCall(c, call) ==
    /\ Runs(c) /\ cpu[c].at = "idle" /\ cpu[c].calls < MaxLockCalls
    /\ cpu' = [cpu EXCEPT ![c].call = call, ![c].at = "lock", ![c].calls = @ + 1]
    /\ UNCHANGED <<tableLock, ledgerLock, migration, seen, besideLocks>>

\* let mut table_write = self.table.write()
TableWrite(c) ==
    /\ Runs(c) /\ cpu[c].at = "lock" /\ cpu[c].call \in HeapCalls
    /\ CanWrite(tableLock)
    /\ tableLock' = RwLock_write(tableLock, c)
    /\ cpu' = [cpu EXCEPT ![c].at = IF cpu[c].call = "alloc" THEN "scan" ELSE "clear"]
    /\ UNCHANGED <<ledgerLock, migration, seen, besideLocks>>

\* alloc's pass over the table: a run is found, or the table has to grow
TableScan(c) ==
    /\ Runs(c) /\ cpu[c].at = "scan"
    /\ seen' = seen \cup {Access(c, "main")}
    /\ \E found \in {TRUE} \cup {FALSE : g \in {migration.grows} \ {MaxGrows}} :
           cpu' = [cpu EXCEPT ![c].at = IF found THEN "carve" ELSE "remap"]
    /\ UNCHANGED <<tableLock, ledgerLock, migration, besideLocks>>

\* grow: the table's pages are remapped at the new base, the slice pointer
\* is swapped, the new table's pages are marked full, the old table's
\* pages are marked empty
GrowStep(c) ==
    /\ Runs(c) /\ cpu[c].at \in {"remap", "swap", "mark_new", "clear_old"}
    /\ seen' = seen \cup {Access(c, "main")}
    /\ \/ /\ cpu[c].at = "remap"
          /\ migration' = [migration EXCEPT !.phase = "remapped", !.mover = c]
          /\ cpu' = [cpu EXCEPT ![c].at = "swap"]
       \/ /\ cpu[c].at = "swap"
          /\ migration' = [migration EXCEPT !.phase = "swapped"]
          /\ cpu' = [cpu EXCEPT ![c].at = "mark_new"]
       \/ /\ cpu[c].at = "mark_new"
          /\ migration' = [migration EXCEPT !.phase = "marked"]
          /\ cpu' = [cpu EXCEPT ![c].at = "clear_old"]
       \/ /\ cpu[c].at = "clear_old"
          /\ migration' = [phase |-> "none", mover |-> "none", grows |-> migration.grows + 1]
          /\ cpu' = [cpu EXCEPT ![c].at = "scan"]
    /\ UNCHANGED <<tableLock, ledgerLock, besideLocks>>

\* alloc sets the bits of the run and returns: the guard is dropped
Carve(c) ==
    /\ Runs(c) /\ cpu[c].at = "carve"
    /\ seen' = seen \cup {Access(c, "main")}
    /\ tableLock' = RwLock_drop(tableLock, c)
    /\ cpu' = [cpu EXCEPT ![c].at = "idle", ![c].call = "none"]
    /\ UNCHANGED <<ledgerLock, migration, besideLocks>>

\* dealloc clears the bits of the range and returns: the guard is dropped
Clear(c) ==
    /\ Runs(c) /\ cpu[c].at = "clear"
    /\ seen' = seen \cup {Access(c, "main")}
    /\ tableLock' = RwLock_drop(tableLock, c)
    /\ cpu' = [cpu EXCEPT ![c].at = "idle", ![c].call = "none"]
    /\ UNCHANGED <<ledgerLock, migration, besideLocks>>

\* FrameAllocator::next_frame is entered: self.table.with(|table| ..)
LedgerCall(c) ==
    /\ Runs(c) /\ cpu[c].at = "idle" /\ cpu[c].calls < MaxLockCalls
    /\ cpu' = [cpu EXCEPT ![c] = [InterruptCell_mask(@) EXCEPT
                                      !.call = "next_frame", !.at = "lock", !.calls = @ + 1]]
    /\ UNCHANGED <<tableLock, ledgerLock, migration, seen, besideLocks>>

\* let mut table = table.write()
LedgerWrite(c) ==
    /\ Runs(c) /\ cpu[c].at = "lock" /\ cpu[c].call = "next_frame"
    /\ CanWrite(ledgerLock)
    /\ ledgerLock' = RwLock_write(ledgerLock, c)
    /\ cpu' = [cpu EXCEPT ![c].at = "set"]
    /\ UNCHANGED <<tableLock, migration, seen, besideLocks>>

\* the bit is set, the closure returns: the guard is dropped and with()
\* returns
LedgerReturn(c) ==
    /\ Runs(c) /\ cpu[c].at = "set"
    /\ ledgerLock' = RwLock_drop(ledgerLock, c)
    /\ cpu' = [cpu EXCEPT ![c] = [InterruptCell_restore(@) EXCEPT
                                      !.call = "none", !.at = "idle"]]
    /\ UNCHANGED <<tableLock, migration, seen, besideLocks>>

\* an interrupt arrives on core c, whose handler calls h
Interrupt(c, h) ==
    /\ cpu[c].enabled /\ cpu[c].irq = "none" /\ cpu[c].irqs < MaxIrqs
    /\ cpu' = [cpu EXCEPT ![c].irq = h, ![c].irqAt = "lock", ![c].irqs = @ + 1]
    /\ UNCHANGED <<tableLock, ledgerLock, migration, seen, besideLocks>>

\* the handler's write(): it spins until the lock is free
HandlerWrite(c) ==
    /\ cpu[c].irq # "none" /\ cpu[c].irqAt = "lock"
    /\ CanWrite(LockOf(cpu[c].irq))
    /\ IF cpu[c].irq \in HeapCalls
       THEN tableLock' = RwLock_write(tableLock, c) /\ UNCHANGED ledgerLock
       ELSE ledgerLock' = RwLock_write(ledgerLock, c) /\ UNCHANGED tableLock
    /\ cpu' = [cpu EXCEPT ![c].irqAt = "held"]
    /\ UNCHANGED <<migration, seen, besideLocks>>

\* the handler's call returns and the interrupted code goes on
HandlerReturn(c) ==
    /\ cpu[c].irq # "none" /\ cpu[c].irqAt = "held"
    /\ IF cpu[c].irq \in HeapCalls
       THEN /\ tableLock' = RwLock_drop(tableLock, c)
            /\ seen' = seen \cup {Access(c, "handler")}
            /\ UNCHANGED ledgerLock
       ELSE /\ ledgerLock' = RwLock_drop(ledgerLock, c)
            /\ UNCHANGED <<tableLock, seen>>
    /\ cpu' = [cpu EXCEPT ![c].irq = "none", ![c].irqAt = "none"]
    /\ UNCHANGED <<migration, besideLocks>>

LocksNext ==
    \/ \E c \in Cores, call \in HeapCalls : HeapCall(c, call)
    \/ \E c \in Cores : TableWrite(c)
    \/ \E c \in Cores : TableScan(c)
    \/ \E c \in Cores : GrowStep(c)
    \/ \E c \in Cores : Carve(c)
    \/ \E c \in Cores : Clear(c)
    \/ \E c \in Cores : LedgerCall(c)
    \/ \E c \in Cores : LedgerWrite(c)
    \/ \E c \in Cores : LedgerReturn(c)
    \/ \E c \in Cores, h \in HandlerCalls : Interrupt(c, h)
    \/ \E c \in Cores : HandlerWrite(c)
    \/ \E c \in Cores : HandlerReturn(c)

LocksSpec == LocksInit /\ [][LocksNext]_vars

\* the handler of core c waits for a lock that the code it interrupted holds
SpinsForever(c) ==
    /\ cpu[c].irq # "none" /\ cpu[c].irqAt = "lock"
    /\ LockOf(cpu[c].irq).writer = c

(***************************************************************************)
(* C23: the main code of a core holds the ledger's lock or the heap        *)
(* table's lock only with the core's interrupts masked, so no handler      *)
(* waits for a lock that the code it interrupted holds.                    *)
(***************************************************************************)
C23_CriticalSectionsMasked ==
    \A c \in Cores :
        /\ (Runs(c) /\ InCriticalSection(c)) => ~cpu[c].enabled
        /\ ~SpinsForever(c)

(***************************************************************************)
(* C24: alloc, with every grow it performs, and dealloc read and write the *)
(* table only while they hold its write lock, and between the steps of a   *)
(* relocation no code but the relocating call touches the table.           *)
(***************************************************************************)
C24_NoHalfMigratedTable ==
    /\ \A c \in Cores :
          (InCriticalSection(c) /\ cpu[c].call \in HeapCalls) => tableLock.writer = c
    /\ migration.phase # "none" =>
          /\ tableLock.writer = migration.mover
          /\ \A c \in Cores \ {migration.mover} :
                ~(InCriticalSection(c) /\ cpu[c].call \in HeapCalls)
    /\ \A a \in seen :
          a.phase # "none" => (a.core = a.mover /\ a.by = "main")

\* a core waits for the table's lock while the other is between the pointer
\* swap and the marking of the new pages, after which both have accessed it
C24_Witness ==
    \E c \in Cores, d \in Cores :
        /\ c # d
        /\ migration.phase = "swapped" /\ migration.mover = c
        /\ cpu[d].at = "lock" /\ cpu[d].call \in HeapCalls
        /\ \E a \in seen : a.core = d

(***************************************************************************)
(* FrontSpec: the Global Allocator Front.  set and get are called in any   *)
(* order, each call as a whole.                                            *)
(***************************************************************************)
MaxFrontCalls == 4

\* The allocators that bring-up may install.
Allocators == {"slob", "bump", "null"}

\* SyncRefCell::set, the cell malloc.rs names; cell.rs does not define it.  A
\* set on the empty cell stores the value (4.4: the front is read after it
\* is set).  For a set on a cell that holds a value neither the spec nor
\* its caller, which drops the answer, tells the outcome: the cell keeps
\* its value or takes the new one.
SyncRefCell_set(cell, obj) ==
    IF cell.some THEN {cell, Some(obj)} ELSE {Some(obj)}

\* SyncOnceCell::get
OnceCell_get(cell) == cell

\* malloc::set: DEFAULT_MALLOCATOR.set(allocator), nothing returned; the
\* cells it may leave
malloc_set(cell, allocator) == SyncRefCell_set(cell, allocator)

\* malloc::get, had it handed on what the cell gave it.
malloc_get_unchecked(cell) == [halt |-> "no", ret |-> OnceCell_get(cell)]

\* malloc::get: .expect("no default allocator")
malloc_get(cell) ==
    IF OnceCell_get(cell).some THEN [halt |-> "no", ret |-> OnceCell_get(cell)]
    ELSE [halt |-> "no default allocator", ret |-> None]

FrontInit ==
    /\ DEFAULT_MALLOCATOR = None
    /\ fcalls = << >>
    /\ halted = "no" /\ checks = TRUE
    /\ BesideFrontUntracked

\* malloc::set(allocator)
MallocSet(allocator) ==
    /\ halted = "no" /\ Len(fcalls) < MaxFrontCalls
    /\ DEFAULT_MALLOCATOR' \in malloc_set(DEFAULT_MALLOCATOR, allocator)
    /\ fcalls' = Append(fcalls, [op |-> "set", arg |-> allocator, pre |-> DEFAULT_MALLOCATOR,
                                 ret |-> None, halt |-> "no"])
    /\ UNCHANGED <<halted, besideFront>>

\* malloc::get()
MallocGet ==
    /\ halted = "no" /\ Len(fcalls) < MaxFrontCalls
    /\ \E r \in {malloc_get(DEFAULT_MALLOCATOR)} :
           /\ halted' = r.halt
           /\ fcalls' = Append(fcalls, [op |-> "get", arg |-> "none", pre |-> DEFAULT_MALLOCATOR,
                                        ret |-> r.ret, halt |-> r.halt])
    /\ UNCHANGED <<DEFAULT_MALLOCATOR, besideFront>>

FrontNext ==
    \/ \E allocator \in Allocators : MallocSet(allocator)
    \/ MallocGet

FrontSpec == FrontInit /\ [][FrontNext]_vars

(***************************************************************************)
(* C25: a get() made before any set() panics with "no default allocator"   *)
(* and returns no reference.                                               *)
(***************************************************************************)
C25_GetBeforeSetIsFatal ==
    \A k \in DOMAIN fcalls :
        ( /\ fcalls[k].op = "get"
          /\ \A j \in 1 .. (k - 1) : fcalls[j].op # "set" )
        => /\ fcalls[k].halt = "no default allocator"
           /\ ~fcalls[k].ret.some
           /\ halted = "no default allocator"

\* get() was the first call made to the front
C25_Witness ==
    /\ Len(fcalls) = 1
    /\ fcalls[1].op = "get"
    /\ halted = "no default allocator"

\* The entries at which a run of n fully-empty entries of table t starts.
EmptyRuns(t, n) ==
    { i \in 0 .. (TableLen(t) - n) : \A j \in i .. (i + n - 1) : is_empty(t[j]) }

\* grow found no run of empty entries for the new table
Appended(snap) ==
    EmptyRuns(snap.pre, Cardinality(TablePagesOf(snap.post, snap.postBase))) = {}

(***************************************************************************)
(* C27: grow puts the new table at the lowest run of req_table_page_count  *)
(* fully-empty entries of the old table if there is one, else at the page  *)
(* whose index is the old table's length; the pages chosen share nothing   *)
(* with the old table's pages.                                             *)
(***************************************************************************)
C27_GrowPlacement ==
    \A k \in DOMAIN last.snaps :
        LET snap == last.snaps[k]
            runs == EmptyRuns(snap.pre, Cardinality(TablePagesOf(snap.post, snap.postBase)))
        IN  /\ runs # {} => (snap.postBase \in runs /\ \A i \in runs : snap.postBase <= i)
            /\ runs = {} => snap.postBase = TableLen(snap.pre)
            /\ TablePagesOf(snap.post, snap.postBase)
                  \cap TablePagesOf(snap.pre, snap.preBase) = {}

\* a grow that found no run and put the table at the old table's end
C27_Witness ==
    /\ Grew
    /\ \E k \in DOMAIN last.snaps :
          /\ Appended(last.snaps[k])
          /\ last.snaps[k].postBase = TableLen(last.snaps[k].pre)

(***************************************************************************)
(* BootSpec: the bring-up of the cores.  The boot core runs _entry; the    *)
(* cores the bootloader detected wait until setup_smp jumps them to        *)
(* _smp_entry (or to _idle_forever when the smp parameter is off).         *)
(***************************************************************************)
BootCores == {"bsp", "ap1", "ap2"}
KernelMappings == {"load", "hhdm", "apic"}

\* _entry and setup_memory, in program order.
EntrySteps ==
    << "entry", "parse_params", "map_load", "map_hhdm", "map_apic", "swap_into",
       "load_symbols", "drivers", "setup_smp", "kernel_core_setup", "scheduling" >>

\* _smp_entry, in program order.
SmpEntrySteps == << "smp_entry", "swap_into", "kernel_core_setup", "scheduling" >>

StepsOf(c) == IF c = "bsp" THEN EntrySteps ELSE SmpEntrySteps

\* StepAfter, had setup_memory switched page tables before mapping the APIC.
StepAfter_swap_before_apic(c, at) ==
    IF c = "bsp" /\ at = "map_hhdm" THEN "swap_into"
    ELSE StepsOf(c)[(CHOOSE i \in DOMAIN StepsOf(c) : StepsOf(c)[i] = at) + 1]

\* the statement that follows `at` in the function core c runs
StepAfter(c, at) ==
    StepsOf(c)[(CHOOSE i \in DOMAIN StepsOf(c) : StepsOf(c)[i] = at) + 1]

\* The panic of a mapping that fails.
MapPanic(what) ==
    CASE what = "load" -> "failed to map kernel segments"
      [] what = "hhdm" -> "failed mapping the HHDM"
      [] what = "apic" -> "called Result::unwrap() on an Err value"

Event(c, step) == [core |-> c, step |-> step, mapped |-> kmapper]

\* The bootloader hands over on the boot core, on its own page tables; any
\* of the other cores may have been detected.
BootInit ==
    /\ boot \in { b \in [BootCores -> {"entry", "parked", "absent"}] :
                    /\ b["bsp"] = "entry"
                    /\ \A c \in BootCores \ {"bsp"} : b[c] # "entry" }
    /\ kmapper = {}
    /\ root = [c \in BootCores |-> "bootloader"]
    /\ params = [parsed |-> FALSE, smp |-> FALSE]
    /\ trace = << >>
    /\ halted = "no" /\ checks = TRUE
    /\ BesideBootUntracked

\* setup_logging(); print_boot_info(); crate::cpu::setup()
EntrySetup ==
    /\ halted = "no" /\ boot["bsp"] = "entry"
    /\ boot' = [boot EXCEPT !["bsp"] = StepAfter("bsp", @)]
    /\ trace' = Append(trace, Event("bsp", "entry"))
    /\ UNCHANGED <<kmapper, root, params, halted, besideBoot>>

\* params::PARAMETERS.call_once(|| Parameters::parse(kernel_file.cmdline()))
ParseParameters(smp) ==
    /\ halted = "no" /\ boot["bsp"] = "parse_params"
    /\ params' = [parsed |-> TRUE, smp |-> smp]
    /\ boot' = [boot EXCEPT !["bsp"] = StepAfter("bsp", @)]
    /\ trace' = Append(trace, Event("bsp", "parse_params"))
    /\ UNCHANGED <<kmapper, root, halted, besideBoot>>

\* with_kmapper: the LOAD segments, the HHDM, the APIC page are mapped, each
\* with .expect(..) or .unwrap() on the mapper's answer
MapKernel(what, ok) ==
    /\ halted = "no" /\ boot["bsp"] = "map_" \o what
    /\ IF ok
       THEN /\ kmapper' = kmapper \cup {what}
            /\ boot' = [boot EXCEPT !["bsp"] = StepAfter("bsp", @)]
            /\ UNCHANGED halted
       ELSE /\ halted' = MapPanic(what)
            /\ UNCHANGED <<kmapper, boot>>
    /\ trace' = Append(trace, Event("bsp", "map_" \o what))
    /\ UNCHANGED <<root, params, besideBoot>>

\* unsafe { kmapper.swap_into() }
SwapInto(c) ==
    /\ halted = "no" /\ boot[c] = "swap_into"
    /\ root' = [root EXCEPT ![c] = "kernel"]
    /\ boot' = [boot EXCEPT ![c] = StepAfter(c, @)]
    /\ trace' = Append(trace, Event(c, "swap_into"))
    /\ UNCHANGED <<kmapper, params, halted, besideBoot>>

\* the symbol table is loaded; setup_memory returns
LoadSymbols ==
    /\ halted = "no" /\ boot["bsp"] = "load_symbols"
    /\ boot' = [boot EXCEPT !["bsp"] = StepAfter("bsp", @)]
    /\ trace' = Append(trace, Event("bsp", "setup_memory"))
    /\ UNCHANGED <<kmapper, root, params, halted, besideBoot>>

\* crate::acpi::init_interface(); load_drivers()
InitDrivers ==
    /\ halted = "no" /\ boot["bsp"] = "drivers"
    /\ boot' = [boot EXCEPT !["bsp"] = StepAfter("bsp", @)]
    /\ trace' = Append(trace, Event("bsp", "drivers"))
    /\ UNCHANGED <<kmapper, root, params, halted, besideBoot>>

\* setup_smp: cpu_info.jump_to(_smp_entry, None), or to _idle_forever
StartCore(c) ==
    /\ halted = "no" /\ boot["bsp"] = "setup_smp"
    /\ boot[c] = "parked"
    /\ boot' = [boot EXCEPT ![c] = IF params.smp THEN "smp_entry" ELSE "idle_forever"]
    /\ trace' = Append(trace, Event(c, "jump_to"))
    /\ UNCHANGED <<kmapper, root, params, halted, besideBoot>>

\* setup_smp returns once every detected core was jumped; the bootloader's
\* memory is reclaimed
ReclaimBootMemory ==
    /\ halted = "no" /\ boot["bsp"] = "setup_smp"
    /\ \A c \in BootCores : boot[c] # "parked"
    /\ boot' = [boot EXCEPT !["bsp"] = StepAfter("bsp", @)]
    /\ trace' = Append(trace, Event("bsp", "reclaim_boot_memory"))
    /\ UNCHANGED <<kmapper, root, params, halted, besideBoot>>

\* _smp_entry: crate::cpu::setup()
SmpEntry(c) ==
    /\ halted = "no" /\ boot[c] = "smp_entry"
    /\ boot' = [boot EXCEPT ![c] = StepAfter(c, @)]
    /\ trace' = Append(trace, Event(c, "smp_entry"))
    /\ UNCHANGED <<kmapper, root, params, halted, besideBoot>>

\* kernel_core_setup(): local::init, interrupts::enable, begin_scheduling
KernelCoreSetup(c) ==
    /\ halted = "no" /\ boot[c] = "kernel_core_setup"
    /\ boot' = [boot EXCEPT ![c] = StepAfter(c, @)]
    /\ trace' = Append(trace, Event(c, "kernel_core_setup"))
    /\ UNCHANGED <<kmapper, root, params, halted, besideBoot>>

BootNext ==
    \/ EntrySetup
    \/ \E smp \in BOOLEAN : ParseParameters(smp)
    \/ \E what \in KernelMappings, ok \in BOOLEAN : MapKernel(what, ok)
    \/ \E c \in BootCores : SwapInto(c)
    \/ LoadSymbols
    \/ InitDrivers
    \/ \E c \in BootCores : StartCore(c)
    \/ ReclaimBootMemory
    \/ \E c \in BootCores : SmpEntry(c)
    \/ \E c \in BootCores : KernelCoreSetup(c)

BootSpec == BootInit /\ [][BootNext]_vars

\* event k of the trace comes after an event of core c at `step`
After(k, c, step) ==
    \E j \in 1 .. (k - 1) : trace[j].core = c /\ trace[j].step = step

(***************************************************************************)
(* C28: a core switches to the kernel's page tables only once the kernel   *)
(* mapper holds the LOAD-segment mappings, the HHDM and the APIC mapping;  *)
(* it runs kernel_core_setup only after its own swap_into; and a further   *)
(* core is started only after the boot core has finished setup_memory.     *)
(***************************************************************************)
C28_BringUpOrder ==
    \A k \in DOMAIN trace :
        /\ trace[k].step = "swap_into" => KernelMappings \subseteq trace[k].mapped
        /\ trace[k].step = "kernel_core_setup" => After(k, trace[k].core, "swap_into")
        /\ trace[k].step = "jump_to" => After(k, "bsp", "setup_memory")

\* every core has been through kernel_core_setup, the others before the boot
\* core
C28_Witness ==
    /\ \A c \in BootCores : boot[c] = "scheduling" /\ root[c] = "kernel"
    /\ trace[Len(trace)] = Event("bsp", "kernel_core_setup")

(***************************************************************************)
(* OnceSpec: a function defined with call_once!, called from three cores   *)
(* in any interleaving.  The compare-exchange is one step; the body is a   *)
(* sequence of BodyLen statements.                                         *)
(***************************************************************************)
MaxOnceCalls == 2
BodyLen == 2

OnceName == "setup_memory"
OncePanic == OnceName \o " called more than once"

NotCalling == [at |-> "idle", calls |-> 0, won |-> FALSE, panic |-> "no"]

\* compare_exchange, had it succeeded whatever the flag held.
compare_exchange_blind(flag, current, value) == [ok |-> TRUE, flag |-> value]

\* AtomicBool::compare_exchange(current, new, AcqRel, Acquire)
compare_exchange(flag, current, value) ==
    IF flag = current THEN [ok |-> TRUE, flag |-> value]
    ELSE [ok |-> FALSE, flag |-> flag]

OnceInit ==
    /\ CALLED = FALSE
    /\ caller = [c \in BootCores |-> NotCalling]
    /\ bodyRuns = [c \in BootCores |-> 0]
    /\ halted = "no" /\ checks = TRUE
    /\ BesideOnceUntracked

\* a core calls the function
CallOnce(c) ==
    /\ caller[c].at = "idle" /\ caller[c].calls < MaxOnceCalls
    /\ caller' = [caller EXCEPT ![c].at = "called", ![c].calls = @ + 1]
    /\ UNCHANGED <<CALLED, bodyRuns, halted, besideOnce>>

\* if CALLED.compare_exchange(false, true, ..).is_ok()
CompareExchange(c) ==
    /\ caller[c].at = "called"
    /\ \E r \in {compare_exchange(CALLED, FALSE, TRUE)} :
           /\ CALLED' = r.flag
           /\ caller' = [caller EXCEPT ![c].at = IF r.ok THEN "body" ELSE "else",
                                       ![c].won = @ \/ r.ok]
    /\ UNCHANGED <<bodyRuns, halted, besideOnce>>

\* $body: its next statement; the call returns after the last
Body(c) ==
    /\ caller[c].at = "body"
    /\ bodyRuns' = [bodyRuns EXCEPT ![c] = @ + 1]
    /\ caller' = [caller EXCEPT ![c].at = IF bodyRuns[c] + 1 = BodyLen THEN "idle" ELSE "body"]
    /\ UNCHANGED <<CALLED, halted, besideOnce>>

\* panic!("{} called more than once", stringify!($name))
Panic(c) ==
    /\ caller[c].at = "else"
    /\ caller' = [caller EXCEPT ![c].at = "panicked", ![c].panic = OncePanic]
    /\ UNCHANGED <<CALLED, bodyRuns, halted, besideOnce>>

OnceNext ==
    \/ \E c \in BootCores : CallOnce(c)
    \/ \E c \in BootCores : CompareExchange(c)
    \/ \E c \in BootCores : Body(c)
    \/ \E c \in BootCores : Panic(c)

OnceSpec == OnceInit /\ [][OnceNext]_vars

(***************************************************************************)
(* C29: in every interleaving the body of a call_once! function runs at    *)
(* most once, in the one call that won the compare-exchange on CALLED;     *)
(* every other call panics with "<name> called more than once" and runs    *)
(* no statement of the body.                                               *)
(***************************************************************************)
C29_BodyRunsOnce ==
    /\ Cardinality({ c \in BootCores : caller[c].won }) <= 1
    /\ CALLED <=> \E c \in BootCores : caller[c].won
    /\ \A c \in BootCores :
          /\ bodyRuns[c] <= BodyLen
          /\ bodyRuns[c] > 0 => caller[c].won
          /\ caller[c].at = "body" => (caller[c].won /\ bodyRuns[c] < BodyLen)
          /\ caller[c].at = "panicked" =>
                /\ caller[c].panic = "setup_memory called more than once"
                /\ bodyRuns[c] = IF caller[c].won THEN BodyLen ELSE 0
          /\ caller[c].panic = "no" \/ caller[c].at = "panicked"

\* one core ran the body while the two others panicked, and then panicked
\* itself on calling again
C29_Witness ==
    \E c \in BootCores :
        /\ bodyRuns[c] = BodyLen
        /\ \A d \in BootCores : caller[d].at = "panicked"
        /\ \A d \in BootCores \ {c} : caller[d].calls = 1 /\ bodyRuns[d] = 0

(***************************************************************************)
(* RandSpec: rdrand() and rdseed(), one loop iteration at a time.  The     *)
(* asm! block carries options(pure, nomem) although the instruction's      *)
(* outputs differ from one execution to the next: the compiler may run it  *)
(* once and reuse its outputs in every iteration.  Whether it does is a    *)
(* property of the build.                                                  *)
(***************************************************************************)
\* for _ in 0..100
RETRY_LIMIT == 100

RandInstructions == {"rdrand", "rdseed"}

\* What one execution of the instruction leaves in the destination register
\* and in the carry flag.
Outcomes == [value : {0, 7}, carry : BOOLEAN]
NoOutcome == [value |-> 0, carry |-> FALSE]

NotCalled == [insn |-> "none", at |-> "idle", i |-> 0, ok |-> FALSE, value |-> 0, err |-> "none"]
NotExecuted == [count |-> 0, failed |-> 0, last |-> NoOutcome]

\* FEATURE_INFO.as_ref().map(|info| info.has_rdrand()).unwrap_or(false)
has_feature(hw, insn) == hw[insn]

\* result > 0 && RFlags::from_bits_truncate(rflags).contains(RFlags::CARRY_FLAG)
Accepted(outcome) == outcome.value > 0 /\ outcome.carry

RandInit ==
    /\ rng = NotCalled
    /\ hardware \in [rdrand : BOOLEAN, rdseed : BOOLEAN, hoisted : BOOLEAN]
    /\ executed = NotExecuted
    /\ halted = "no" /\ checks = TRUE
    /\ BesideRandUntracked

\* rdrand() / rdseed() is called: the feature check
RandCall(insn) ==
    /\ rng.at \in {"idle", "returned"}
    /\ rng' = IF has_feature(hardware, insn)
              THEN [NotCalled EXCEPT !.insn = insn, !.at = "loop"]
              ELSE [NotCalled EXCEPT !.insn = insn, !.at = "returned", !.err = "NotSupported"]
    /\ executed' = NotExecuted
    /\ UNCHANGED <<hardware, halted, besideRand>>

\* one iteration of the loop: the asm! block, the test of its outputs, and
\* return Ok(result) or pause()
Attempt(outcome) ==
    /\ rng.at = "loop" /\ rng.i < RETRY_LIMIT
    /\ \E seen_outcome \in {IF hardware.hoisted /\ executed.count > 0
                            THEN executed.last ELSE outcome} :
          /\ executed' =
                IF hardware.hoisted /\ executed.count > 0 THEN executed
                ELSE [count |-> executed.count + 1,
                      failed |-> executed.failed + (IF Accepted(outcome) THEN 0 ELSE 1),
                      last |-> outcome]
          /\ rng' = IF Accepted(seen_outcome)
                    THEN [rng EXCEPT !.at = "returned", !.ok = TRUE,
                                     !.value = seen_outcome.value]
                    ELSE [rng EXCEPT !.i = @ + 1]
    /\ UNCHANGED <<hardware, halted, besideRand>>

\* the loop ends: Err(RandError::HardFailure)
GiveUp ==
    /\ rng.at = "loop" /\ rng.i = RETRY_LIMIT
    /\ rng' = [rng EXCEPT !.at = "returned", !.err = "HardFailure"]
    /\ UNCHANGED <<hardware, executed, halted, besideRand>>

RandNext ==
    \/ \E insn \in RandInstructions : RandCall(insn)
    \/ \E outcome \in Outcomes : Attempt(outcome)
    \/ GiveUp

RandSpec == RandInit /\ [][RandNext]_vars

(***************************************************************************)
(* C30: rdrand and rdseed return: NotSupported without executing the       *)
(* instruction when the CPU lacks the feature; otherwise after at most 100 *)
(* executions, Ok(v) at the first execution that leaves a nonzero v with   *)
(* the carry flag set, and HardFailure exactly when 100 executions failed. *)
(***************************************************************************)
C30_RandTerminates ==
    /\ rng.i <= RETRY_LIMIT /\ executed.count <= RETRY_LIMIT
    /\ rng.at = "loop" => has_feature(hardware, rng.insn)
    /\ rng.at = "returned" =>
          IF ~has_feature(hardware, rng.insn)
          THEN ~rng.ok /\ rng.err = "NotSupported" /\ executed.count = 0
          ELSE \/ /\ rng.ok /\ rng.value = executed.last.value
                  /\ executed.last.value > 0 /\ executed.last.carry
                  /\ executed.failed = executed.count - 1
               \/ /\ ~rng.ok /\ rng.err = "HardFailure"
                  /\ executed.count = RETRY_LIMIT /\ executed.failed = RETRY_LIMIT

\* The pages outside the table's own pages that are mapped to a frame of
\* the table.
AliasedPages(t, base, p) ==
    { page \in (DOMAIN p) \ TablePagesOf(t, base) : p[page].kind = "table" }

(***************************************************************************)
(* C31: after grow has moved the table, no page outside the table's        *)
(* current pages is mapped to a frame that holds table data; the old       *)
(* table's pages, now marked empty, are not left pointing at those frames. *)
(***************************************************************************)
C31_NoAliasOfTableFrames ==
    \A k \in DOMAIN last.snaps :
        AliasedPages(last.snaps[k].post, last.snaps[k].postBase, last.snaps[k].postPt) = {}

(***************************************************************************)
(* The frame allocator as a core::alloc::Allocator: allocate and           *)
(* deallocate of `unsafe impl Allocator for &FrameAllocator`.  A pointer   *)
(* into the direct map is the base of the direct map and the offset from   *)
(* it.  AdapterSpec makes the calls one after the other; each leaves a     *)
(* record in `pcalls`.                                                     *)
(***************************************************************************)
Layout(size, align) == [size |-> size, align |-> align]

\* Hhdm::offset(frame): the address of the frame in the direct map, None
\* when the direct map has no such address.
Hhdm_offset(frame, mapped) ==
    IF mapped THEN Some([base |-> "hhdm", offset |-> frame]) ELSE None

\* ptr.as_ptr().sub_ptr(Hhdm::address().as_ptr())
Hhdm_sub_ptr(ptr) == ptr.offset

AdapterResult(ok, err, ptr, length, panic, bits) ==
    [ok |-> ok, err |-> err, ptr |-> ptr, length |-> length, panic |-> panic,
     ledger |-> bits]

NullPtr == [base |-> "null", offset |-> 0]

\* <&FrameAllocator as Allocator>::allocate
allocate(bits, len, layout, mapped) ==
    IF ~(layout.align <= PAGE_SIZE)
    THEN AdapterResult(FALSE, "none", NullPtr, 0, "assertion failed: layout.align() <= page_size()", bits)
    ELSE LET count == align_up_div(layout.size, 2 ^ page_shift)
             frame == IF layout.size <= PAGE_SIZE
                      THEN next_frame(bits, len)
                      ELSE next_frames(bits, len, count, Some(page_shift))
             address == Hhdm_offset(AddressOf(frame.index), mapped)
         IN  IF count = 0
             THEN AdapterResult(FALSE, "AllocError", NullPtr, 0, "no", bits)
             ELSE IF ~frame.ok
             THEN AdapterResult(FALSE, "AllocError", NullPtr, 0, "no", frame.ledger)
             ELSE IF ~address.some
             THEN AdapterResult(FALSE, "AllocError", NullPtr, 0, "no", frame.ledger)
             ELSE AdapterResult(TRUE, "none", address.v, PAGE_SIZE, "no", frame.ledger)

\* The frames deallocate frees: the one of the pointer for a layout of at
\* most a page, index_offset in 0..frame_count from it for a larger one.
DeallocFrames_first_only(index, layout) == {index}

DeallocFrames(index, layout) ==
    IF layout.size <= PAGE_SIZE THEN {index}
    ELSE { index + index_offset :
             index_offset \in 0 .. (align_up_div(layout.size, 2 ^ page_shift) - 1) }

\* deallocate before its first free_frame: the assertion, the frame of the
\* pointer, the frames still to free
deallocate_enter(ptr, layout) ==
    IF ~(layout.align <= PAGE_SIZE)
    THEN [panic |-> "assertion failed: layout.align() <= page_size()", todo |-> {}]
    ELSE LET offset == Hhdm_sub_ptr(ptr)
             address == offset
         IN  [panic |-> "no", todo |-> DeallocFrames(IndexOf(address), layout)]

\* The frame the next self.free_frame(..).ok() of a deallocate is given:
\* the frames go in ascending order
NextToFree(todo) == CHOOSE i \in todo : \A j \in todo : i <= j

\* The layouts asked for: no bytes, less than a page, one page, a byte more
\* than a page, three pages, and an alignment above a page.
Layouts ==
    { Layout(size, 8) : size \in {0, 1, PAGE_SIZE, PAGE_SIZE + 1, 3 * PAGE_SIZE} }
        \cup {Layout(PAGE_SIZE, 2 * PAGE_SIZE)}

\* What a returned call leaves in `pcalls`.  For a deallocate: the allocate
\* whose block it was given, the frames its free_frame calls cleared, and
\* whether no other core made a step from its entry to its return.
AdapterRecord(c, op, layout, mapped, r, pre, of, freed, alone) ==
    [core |-> c, op |-> op, layout |-> layout, mapped |-> mapped, ok |-> r.ok,
     err |-> r.err, ptr |-> r.ptr, length |-> r.length, pre |-> pre,
     post |-> r.ledger, of |-> of, freed |-> freed, alone |-> alone]

\* The cores inside a deallocate, and the calls begun.
InDeallocate == { c \in Cores : pc[c].at = "free_frame" }
AdapterCanCall(c) ==
    /\ halted = "no" /\ pc[c].at = "idle"
    /\ Len(pcalls) + Cardinality(InDeallocate) < MaxPmmOps

\* pc after a step of core c that leaves it with `mine`: the other cores
\* inside a deallocate are no longer alone
StepOf(c, mine) ==
    [d \in Cores |->
        IF d = c THEN mine
        ELSE IF pc[d].at = "free_frame" THEN [pc[d] EXCEPT !.alone = FALSE]
        ELSE pc[d]]

\* allocate: one section under the ledger's lock, then Hhdm::offset
AdapterAllocate(c, layout, mapped) ==
    /\ AdapterCanCall(c)
    /\ \E r \in {allocate(ledger, LedgerLen, layout, mapped)} :
           /\ ledger' = r.ledger
           /\ halted' = r.panic
           /\ pcalls' = Append(pcalls, AdapterRecord(c, "allocate", layout, mapped, r,
                                                     ledger, 0, {}, TRUE))
    /\ pc' = StepOf(c, pc[c])
    /\ UNCHANGED <<memoryMap, lock, checks, heapVars, growthVars, kernelVars>>

\* The blocks allocate has returned and deallocate has not been given.
Outstanding ==
    { k \in DOMAIN pcalls :
        /\ pcalls[k].op = "allocate" /\ pcalls[k].ok
        /\ \A j \in DOMAIN pcalls : pcalls[j].of # k
        /\ \A c \in InDeallocate : pc[c].of # k }

\* deallocate(ptr, layout) of a block allocate returned, with its layout:
\* up to the first free_frame
DeallocateEnter(c, k) ==
    /\ AdapterCanCall(c)
    /\ k \in Outstanding
    /\ \E r \in {deallocate_enter(pcalls[k].ptr, pcalls[k].layout)} :
           /\ halted' = r.panic
           /\ pc' = StepOf(c, [at |-> "free_frame", of |-> k, todo |-> r.todo,
                                pre |-> ledger, freed |-> {},
                                alone |-> \A d \in Cores \ {c} : pc[d].at = "idle"])
    /\ UNCHANGED <<memoryMap, ledger, pcalls, lock, checks, heapVars, growthVars, kernelVars>>

\* self.free_frame(..).ok(): one section under the ledger's lock; the
\* deallocate returns after the last
DeallocateFreeFrame(c) ==
    /\ halted = "no" /\ pc[c].at = "free_frame"
    /\ \E index \in {NextToFree(pc[c].todo)} :
       \E r \in {free_frame(ledger, LedgerLen, AddressOf(index))} :
           /\ ledger' = r.ledger
           /\ IF pc[c].todo = {index}
              THEN /\ pcalls' = Append(pcalls,
                          AdapterRecord(c, "deallocate", pcalls[pc[c].of].layout, TRUE,
                                        AdapterResult(TRUE, "none", pcalls[pc[c].of].ptr, 0,
                                                      "no", r.ledger),
                                        pc[c].pre, pc[c].of,
                                        pc[c].freed \cup (ledger \ r.ledger), pc[c].alone))
                   /\ pc' = StepOf(c, Idle)
              ELSE /\ pc' = StepOf(c, [pc[c] EXCEPT !.todo = @ \ {index},
                                                    !.freed = @ \cup (ledger \ r.ledger)])
                   /\ UNCHANGED pcalls
    /\ UNCHANGED <<memoryMap, lock, halted, checks, heapVars, growthVars, kernelVars>>

AdapterNext ==
    \/ \E c \in Cores, layout \in Layouts, mapped \in BOOLEAN : AdapterAllocate(c, layout, mapped)
    \/ \E c \in Cores, k \in 1 .. MaxPmmOps : DeallocateEnter(c, k)
    \/ \E c \in Cores : DeallocateFreeFrame(c)

AdapterSpec == PmmInit /\ [][AdapterNext]_vars

\* The frames a call marked used, and the frames it freed.
MarkedBy(rec) == rec.post \ rec.pre
FreedBy(rec) == rec.pre \ rec.post
\* ceil(size / page_size)
FramesFor(size) == (size + PAGE_SIZE - 1) \div PAGE_SIZE
IsRun(frames, count) ==
    \E first \in 0 .. USIZE_BITS : frames = first .. (first + count - 1)

(***************************************************************************)
(* C32.  A successful allocate returns a block whose reported length is at *)
(* least layout.size(), at the frame the pointer names, backed by          *)
(* ceil(size / page_size) contiguous frames that were free before the call *)
(* and are used after it.                                                  *)
(***************************************************************************)
C32_AllocateBlock ==
    \A k \in DOMAIN pcalls :
        (pcalls[k].op = "allocate" /\ pcalls[k].ok) =>
            /\ pcalls[k].length >= pcalls[k].layout.size
            /\ IsRun(MarkedBy(pcalls[k]), FramesFor(pcalls[k].layout.size))
            /\ IndexOf(Hhdm_sub_ptr(pcalls[k].ptr)) \in MarkedBy(pcalls[k])
            /\ FreedBy(pcalls[k]) = {}

\* The rest of C32 without the reported length: the frames behind the block.
AllocateFrames ==
    \A k \in DOMAIN pcalls :
        (pcalls[k].op = "allocate" /\ pcalls[k].ok) =>
            /\ IsRun(MarkedBy(pcalls[k]), FramesFor(pcalls[k].layout.size))
            /\ IndexOf(Hhdm_sub_ptr(pcalls[k].ptr)) \in MarkedBy(pcalls[k])
            /\ FreedBy(pcalls[k]) = {}

\* The reported length falls short only for a layout of more than a page.
ShortOnlyAbovePage ==
    \A k \in DOMAIN pcalls :
        (pcalls[k].op = "allocate" /\ pcalls[k].ok /\ pcalls[k].layout.size <= PAGE_SIZE) =>
            pcalls[k].length >= pcalls[k].layout.size

(***************************************************************************)
(* C33.  deallocate(ptr, layout) of a block allocate(layout) returned      *)
(* frees exactly the frames that allocate marked used and marks none; and  *)
(* when it is the next call after that allocate, with no step of another   *)
(* core during it, the ledger is again as allocate found it.               *)
(***************************************************************************)
C33_DeallocateUndoesAllocate ==
    \A k \in DOMAIN pcalls :
        pcalls[k].op = "deallocate" =>
            /\ pcalls[k].freed = MarkedBy(pcalls[pcalls[k].of])
            /\ (pcalls[k].alone /\ pcalls[k].of = k - 1) =>
                   pcalls[k].post = pcalls[k - 1].pre

\* Reached: a block of three frames has been given back by the call that
\* followed its allocate, after a block of one frame was taken.
C33_Witness ==
    /\ Len(pcalls) = 3
    /\ pcalls[1].op = "allocate" /\ pcalls[1].ok /\ Cardinality(MarkedBy(pcalls[1])) = 1
    /\ pcalls[2].op = "allocate" /\ pcalls[2].ok
    /\ pcalls[3].op = "deallocate" /\ pcalls[3].of = 2 /\ pcalls[3].alone
    /\ Cardinality(pcalls[3].freed) = 3

\* Between the free_frame calls of a deallocate the ledger's lock is free:
\* another core is given the first frame of a block while the rest of the
\* block is still marked used.
FreedFrameTakenDuringDeallocate ==
    \E c \in InDeallocate, k \in DOMAIN pcalls :
        /\ pcalls[k].op = "allocate" /\ pcalls[k].ok /\ pcalls[k].core # c
        /\ MarkedBy(pcalls[k]) \subseteq pc[c].freed
        /\ pc[c].todo # {}

(***************************************************************************)
(* C34.  A call of allocate that returns AllocError leaves the ledger as   *)
(* it found it.                                                            *)
(***************************************************************************)
C34_AllocErrorLeavesLedger ==
    \A k \in DOMAIN pcalls :
        (pcalls[k].op = "allocate" /\ pcalls[k].err = "AllocError") =>
            pcalls[k].post = pcalls[k].pre

\* The ledger is left changed only when the direct map had no address.
AllocErrorUnmappedOnly ==
    \A k \in DOMAIN pcalls :
        (pcalls[k].op = "allocate" /\ pcalls[k].err = "AllocError" /\ pcalls[k].mapped) =>
            pcalls[k].post = pcalls[k].pre

(***************************************************************************)
(* SyncOnceCell shared between the cores.  The struct wraps a              *)
(* core::lazy::OnceCell, whose set looks whether the slot is filled and    *)
(* then writes it through the UnsafeCell with no synchronisation; `unsafe  *)
(* impl Sync` lets several cores be inside set at once.  The value is two  *)
(* machine words, as a reference to a trait object or to a slice is, and   *)
(* the slot is None when its first word is null.  CellSpec takes the look  *)
(* of a call and the store of each word as separate steps; the stores of a *)
(* write come in either order.                                             *)
(***************************************************************************)
MaxCellCalls == 2

\* The words of a value, and the slot of the cell
Words == {"ptr", "meta"}
EmptySlot == [ptr |-> "null", meta |-> "null"]
CellValue(name) == [ptr |-> name, meta |-> name]
CellValues == [c \in Cores |-> IF c = "bsp" THEN CellValue("slob") ELSE CellValue("bump")]

\* Option<T> of a slot as it is read, and a returned Option or Err value
slot_is_some(slot) == slot.ptr # "null"
NoValue == [some |-> FALSE, v |-> EmptySlot]
SomeValue(v) == [some |-> TRUE, v |-> v]

\* OnceCell::get: Some of what the slot holds, whole or not
slot_get(slot) == IF slot_is_some(slot) THEN SomeValue(slot) ELSE NoValue

NotInCell == [at |-> "idle", op |-> "none", obj |-> EmptySlot, calls |-> 0, pending |-> {}]

CellInit ==
    /\ inner_cell = EmptySlot
    /\ setter = [c \in Cores |-> NotInCell]
    /\ ccalls = << >>
    /\ halted = "no" /\ checks = TRUE
    /\ BesideCellUntracked

\* a core calls set(obj)
CellSet(c) ==
    /\ setter[c].at = "idle" /\ setter[c].calls < MaxCellCalls
    /\ setter' = [setter EXCEPT ![c].at = "called", ![c].op = "set",
                                ![c].obj = CellValues[c], ![c].calls = @ + 1]
    /\ UNCHANGED <<inner_cell, ccalls, halted, besideCell>>

\* OnceCell::set: if slot.is_some() { return Err(value) }
CellLook(c) ==
    /\ setter[c].at = "called"
    /\ IF slot_is_some(inner_cell)
       THEN /\ ccalls' = Append(ccalls, [core |-> c, op |-> "set", obj |-> setter[c].obj,
                                         ok |-> FALSE, value |-> SomeValue(setter[c].obj)])
            /\ setter' = [setter EXCEPT ![c].at = "idle"]
       ELSE /\ setter' = [setter EXCEPT ![c].at = "write", ![c].pending = Words]
            /\ UNCHANGED ccalls
    /\ UNCHANGED <<inner_cell, halted, besideCell>>

\* OnceCell::set: *slot = Some(value), one word of it; Ok(()) after the
\* last
CellStore(c, word) ==
    /\ setter[c].at = "write" /\ word \in setter[c].pending
    /\ inner_cell' = [inner_cell EXCEPT ![word] = setter[c].obj[word]]
    /\ IF setter[c].pending = {word}
       THEN /\ ccalls' = Append(ccalls, [core |-> c, op |-> "set", obj |-> setter[c].obj,
                                         ok |-> TRUE, value |-> NoValue])
            /\ setter' = [setter EXCEPT ![c].at = "idle", ![c].pending = {}]
       ELSE /\ setter' = [setter EXCEPT ![c].pending = @ \ {word}]
            /\ UNCHANGED ccalls
    /\ UNCHANGED <<halted, besideCell>>

\* SyncOnceCell::get
CellGet(c) ==
    /\ setter[c].at = "idle" /\ setter[c].calls < MaxCellCalls
    /\ ccalls' = Append(ccalls, [core |-> c, op |-> "get", obj |-> EmptySlot,
                                 ok |-> TRUE, value |-> slot_get(inner_cell)])
    /\ setter' = [setter EXCEPT ![c].calls = @ + 1]
    /\ UNCHANGED <<inner_cell, halted, besideCell>>

CellNext ==
    \/ \E c \in Cores : CellSet(c)
    \/ \E c \in Cores : CellLook(c)
    \/ \E c \in Cores, word \in Words : CellStore(c, word)
    \/ \E c \in Cores : CellGet(c)

CellSpec == CellInit /\ [][CellNext]_vars

\* The calls of set that returned Ok.
OkSets == { k \in DOMAIN ccalls : ccalls[k].op = "set" /\ ccalls[k].ok }

(***************************************************************************)
(* C35.  Of the calls of set on a shared SyncOnceCell at most one returns  *)
(* Ok, every other returns Err with the value it was given, and every get  *)
(* that returns after a set returned Ok gives the value of that set.       *)
(***************************************************************************)
C35_SetOnceAcrossCores ==
    /\ Cardinality(OkSets) <= 1
    /\ \A k \in DOMAIN ccalls :
          (ccalls[k].op = "set" /\ ~ccalls[k].ok) => ccalls[k].value = SomeValue(ccalls[k].obj)
    /\ \A k \in DOMAIN ccalls, j \in OkSets :
          (ccalls[k].op = "get" /\ j < k) => ccalls[k].value = SomeValue(ccalls[j].obj)

\* A call that returns Err hands back its own value, in every interleaving.
ErrHandsBack ==
    \A k \in DOMAIN ccalls :
        (ccalls[k].op = "set" /\ ~ccalls[k].ok) => ccalls[k].value = SomeValue(ccalls[k].obj)

\* The cell holds, or a get has returned, a value that no call of set was
\* given: words of two values, or a word not yet stored.
Torn(v) == v.ptr # v.meta
TornValueSeen ==
    \/ \A c \in Cores : setter[c].at = "idle" /\ Torn(inner_cell)
    \/ \E k \in DOMAIN ccalls : ccalls[k].op = "get" /\ ccalls[k].value.some
                                  /\ Torn(ccalls[k].value.v)

(***************************************************************************)
(* The LOAD segments of the kernel (setup_memory) and of a driver          *)
(* (load_drivers).  A program header is its p_type, p_flags and p_memsz;   *)
(* permissions are the set of what a mapping allows beside reading.        *)
(***************************************************************************)
MaxSegments == 2

PT_FLAG_EXEC_BIT == 0
PT_FLAG_WRITE_BIT == 1

\* bit_field::BitField::get_bit
get_bit(value, bit) == (value \div (2 ^ bit)) % 2 = 1

\* TableEntryFlags::RO, RW, RX and MmapFlags::empty(), READ_WRITE,
\* READ_EXECUTE
RO == {}
RW == {"write"}
RX == {"execute"}

\* setup_memory: page_attributes of a kernel segment
page_attributes_write_first(p_flags) ==
    IF get_bit(p_flags, PT_FLAG_WRITE_BIT) THEN RW
    ELSE IF get_bit(p_flags, PT_FLAG_EXEC_BIT) THEN RX
    ELSE RO

page_attributes(p_flags) ==
    IF get_bit(p_flags, PT_FLAG_EXEC_BIT) THEN RX
    ELSE IF get_bit(p_flags, PT_FLAG_WRITE_BIT) THEN RW
    ELSE RO

\* load_drivers: the flags set_mmap_flags is given beside NOT_DEMAND
mmap_flags(p_flags) ==
    IF get_bit(p_flags, PT_FLAG_WRITE_BIT) THEN RX
    ELSE IF get_bit(p_flags, PT_FLAG_EXEC_BIT) THEN RW
    ELSE RO

\* (base_offset..offset_end).step_by(page_size()): the number of pages
\* setup_memory maps for a segment that starts on a page boundary
kernel_page_count(p_memsz) == (p_memsz + PAGE_SIZE - 1) \div PAGE_SIZE

\* load_drivers: page_count, with size_offset the offset of p_vaddr in its
\* page
driver_page_count(size_offset, p_memsz) ==
    align_up_div(size_offset + p_memsz, 2 ^ page_shift)

ProgramHeaders ==
    [p_type : {"PT_LOAD"}, p_flags : 0 .. 7, p_memsz : {1, PAGE_SIZE + 1}]
        \cup {[p_type |-> "PT_NOTE", p_flags |-> 7, p_memsz |-> 1]}

RECURSIVE SeqsUpTo(_, _)
SeqsUpTo(S, n) ==
    IF n = 0 THEN {<< >>}
    ELSE LET shorter == SeqsUpTo(S, n - 1)
         IN  shorter \cup { Append(s, x) : s \in shorter, x \in S }

ElfInit ==
    /\ image \in [kind : {"kernel", "driver"},
                  phdrs : SeqsUpTo(ProgramHeaders, MaxSegments) \ {<< >>},
                  next : {1}]
    /\ mappings = << >>
    /\ halted = "no" /\ checks = TRUE
    /\ BesideElfUntracked

\* .filter(|ph| ph.p_type == PT_LOAD): a header of another type is passed
\* over
SkipHeader ==
    /\ image.next <= Len(image.phdrs)
    /\ image.phdrs[image.next].p_type # "PT_LOAD"
    /\ image' = [image EXCEPT !.next = @ + 1]
    /\ UNCHANGED <<mappings, halted, besideElf>>

\* setup_memory: .for_each(|phdr| ..), one kernel segment
MapKernelSegment ==
    /\ image.kind = "kernel"
    /\ image.next <= Len(image.phdrs)
    /\ \E phdr \in {image.phdrs[image.next]} :
          /\ phdr.p_type = "PT_LOAD"
          /\ mappings' = Append(mappings,
                 [phdr |-> phdr, pages |-> kernel_page_count(phdr.p_memsz),
                  first |-> page_attributes(phdr.p_flags),
                  attributes |-> page_attributes(phdr.p_flags)])
    /\ image' = [image EXCEPT !.next = @ + 1]
    /\ UNCHANGED <<halted, besideElf>>

\* load_drivers: for phdr in phdrs.iter().filter(..), one driver segment:
\* mmap read-write, copy and zero, set_mmap_flags
LoadDriverSegment ==
    /\ image.kind = "driver"
    /\ image.next <= Len(image.phdrs)
    /\ \E phdr \in {image.phdrs[image.next]} :
          /\ phdr.p_type = "PT_LOAD"
          /\ mappings' = Append(mappings,
                 [phdr |-> phdr, pages |-> driver_page_count(0, phdr.p_memsz),
                  first |-> RW,
                  attributes |-> mmap_flags(phdr.p_flags)])
    /\ image' = [image EXCEPT !.next = @ + 1]
    /\ UNCHANGED <<halted, besideElf>>

ElfNext ==
    \/ SkipHeader
    \/ MapKernelSegment
    \/ LoadDriverSegment

ElfSpec == ElfInit /\ [][ElfNext]_vars

\* The program header's flags, by the ELF names.
HasExec(phdr) == get_bit(phdr.p_flags, PT_FLAG_EXEC_BIT)
HasWrite(phdr) == get_bit(phdr.p_flags, PT_FLAG_WRITE_BIT)

(***************************************************************************)
(* C38.  A driver's LOAD segment is left writable only if its program      *)
(* header has the write flag and executable only if it has the execute     *)
(* flag: with the write flag it ends read-write, with the execute flag     *)
(* alone read-execute, with neither it has neither permission.             *)
(***************************************************************************)
C38_DriverSegmentPermissions ==
    image.kind = "driver" =>
        \A k \in DOMAIN mappings :
            LET phdr == mappings[k].phdr
                attributes == mappings[k].attributes
            IN  /\ "write" \in attributes => HasWrite(phdr)
                /\ "execute" \in attributes => HasExec(phdr)
                /\ HasWrite(phdr) => attributes = RW
                /\ (HasExec(phdr) /\ ~HasWrite(phdr)) => attributes = RX
                /\ (~HasExec(phdr) /\ ~HasWrite(phdr)) => attributes = RO

\* A driver segment with neither flag is left with neither permission.
DriverPlainSegment ==
    image.kind = "driver" =>
        \A k \in DOMAIN mappings :
            (~HasExec(mappings[k].phdr) /\ ~HasWrite(mappings[k].phdr)) =>
                mappings[k].attributes = RO

(***************************************************************************)
(* C39.  No kernel LOAD segment is mapped writable and executable: with    *)
(* the execute flag it is mapped RX, also when it has the write flag;      *)
(* without it and with the write flag RW; every other segment RO.          *)
(***************************************************************************)
C39_KernelSegmentsNotWX ==
    image.kind = "kernel" =>
        \A k \in DOMAIN mappings :
            LET phdr == mappings[k].phdr
                attributes == mappings[k].attributes
            IN  /\ ~({"write", "execute"} \subseteq attributes)
                /\ HasExec(phdr) => attributes = RX
                /\ (~HasExec(phdr) /\ HasWrite(phdr)) => attributes = RW
                /\ (~HasExec(phdr) /\ ~HasWrite(phdr)) => attributes = RO

\* Reached: the kernel's segments are mapped, one with the write and the
\* execute flag and one with the write flag alone.
C39_Witness ==
    /\ image.kind = "kernel" /\ Len(mappings) = 2
    /\ HasExec(mappings[1].phdr) /\ HasWrite(mappings[1].phdr)
    /\ ~HasExec(mappings[2].phdr) /\ HasWrite(mappings[2].phdr)
    /\ mappings[2].pages = 2

(***************************************************************************)
(* CR3::write and CR3::read (registers/cr3.rs) over Frame (frame.rs).  A   *)
(* u64 is the set of its bits; a Frame is the word of its index; the flags *)
(* are None or Some(bits).                                                 *)
(***************************************************************************)
MaxCr3Calls == 2

PAGE_LEVEL_WRITETHROUGH == Shl({0}, 3)
PAGE_LEVEL_CACHE_DISABLE == Shl({0}, 4)

\* Option<CR3Flags>
NoFlags == [some |-> FALSE, bits |-> {}]
SomeFlags(bits) == [some |-> TRUE, bits |-> bits]

\* !mask
BitNot(mask) == Bits \ mask
\* 0xFFF and 0x000FFFFF_FFFFF000
LowTwelve == 0 .. 11
FrameAddressBits == 12 .. 51

\* Frame::from_addr: [ok, frame]; the assertion fails for an address with
\* a bit outside 0x000FFFFF_FFFFF000
Frame_from_addr(addr) ==
    [ok |-> BitAnd(addr, BitNot(FrameAddressBits)) = {}, frame |-> Shr(addr, Log2(PAGE_SIZE))]

\* Frame::addr: self.0 * 0x1000
Frame_addr(frame) == Shl(frame, Log2(PAGE_SIZE))

\* CR3Flags::from_bits, as bitflags! generates it: None when a bit is set
\* that is no flag of the type
CR3Flags_from_bits(bits) ==
    IF BitAnd(bits, BitNot(BitOr(PAGE_LEVEL_WRITETHROUGH, PAGE_LEVEL_CACHE_DISABLE))) = {}
    THEN SomeFlags(bits)
    ELSE NoFlags

\* CR3::write: the value moved to the register
CR3_write(frame, flags) ==
    LET addr == Frame_addr(frame)
        bits == IF flags.some THEN flags.bits ELSE {}
    IN  BitOr(addr, bits)

\* CR3::read: [ok, frame, flags] of the value moved from the register
CR3_read(value) ==
    LET r == Frame_from_addr(BitAnd(value, BitNot(LowTwelve)))
    IN  [ok |-> r.ok, frame |-> r.frame, flags |-> CR3Flags_from_bits(value)]

\* The frames written: frame 0, frame 1, the last frame below 2^52 and one
\* between; and the flags values.
FrameInputs == { {}, {0}, {39}, {0, 39} }
FlagInputs ==
    {NoFlags} \cup
        { SomeFlags(bits) :
            bits \in SUBSET BitOr(PAGE_LEVEL_WRITETHROUGH, PAGE_LEVEL_CACHE_DISABLE) }

\* The register holds the bootloader's page table.
Cr3Init ==
    /\ cr3 = CR3_write({0}, NoFlags)
    /\ crcalls = << >>
    /\ halted = "no" /\ checks = TRUE
    /\ BesideCr3Untracked

Cr3Write(frame, flags) ==
    /\ halted = "no" /\ Len(crcalls) < MaxCr3Calls
    /\ cr3' = CR3_write(frame, flags)
    /\ crcalls' = Append(crcalls, [op |-> "write", ok |-> TRUE, frame |-> frame, flags |-> flags])
    /\ UNCHANGED <<halted, besideCr3>>

Cr3Read ==
    /\ halted = "no" /\ Len(crcalls) < MaxCr3Calls
    /\ \E r \in {CR3_read(cr3)} :
          /\ crcalls' = Append(crcalls, [op |-> "read", ok |-> r.ok, frame |-> r.frame,
                                         flags |-> r.flags])
          /\ halted' = IF r.ok THEN halted ELSE "frame address format is invalid"
    /\ UNCHANGED <<cr3, besideCr3>>

Cr3Next ==
    \/ \E frame \in FrameInputs, flags \in FlagInputs : Cr3Write(frame, flags)
    \/ Cr3Read

Cr3Spec == Cr3Init /\ [][Cr3Next]_vars

\* The reads that directly follow a write.
ReadBacks == { k \in DOMAIN crcalls : k > 1 /\ crcalls[k].op = "read" /\ crcalls[k - 1].op = "write" }

(***************************************************************************)
(* C40.  CR3::read after CR3::write(frame, flags) returns the frame and    *)
(* the flags that were written, for every page-aligned frame below 2^52    *)
(* and every flags value.                                                  *)
(***************************************************************************)
C40_Cr3RoundTrip ==
    \A k \in ReadBacks :
        /\ crcalls[k].ok
        /\ crcalls[k].frame = crcalls[k - 1].frame
        /\ crcalls[k].flags = crcalls[k - 1].flags

\* The frame does come back, whatever the flags.
FrameRoundTrip ==
    \A k \in ReadBacks : crcalls[k].ok /\ crcalls[k].frame = crcalls[k - 1].frame

\* The flags come back for frame 0 written with Some(flags), and for any
\* other frame written with None.
FlagsRoundTripCases ==
    \A k \in ReadBacks :
        ((crcalls[k - 1].frame = {}) = crcalls[k - 1].flags.some) =>
            crcalls[k].flags = crcalls[k - 1].flags

====
